---- MODULE Spec2Model ----
(***************************************************************************)
(* Exam session and multi-stage assessment engine of backend/server.py.    *)
(*                                                                         *)
(* The document store (db.questions, db.test_configurations,               *)
(* db.test_sessions, db.test_results, db.multi_stage_test_sessions,        *)
(* db.stage_results) is the state; every request handler is a sequence of  *)
(* steps, one per database operation it awaits, so that requests can be    *)
(* interleaved exactly where the event loop can interleave them.           *)
(*                                                                         *)
(* Conventions                                                             *)
(*   - a document is a record; a collection is a sequence of documents in  *)
(*     natural (insertion) order;                                          *)
(*   - Python's None is the string "None" for scalar fields, << >> for a   *)
(*     missing list and NoDoc for a missing document;                      *)
(*   - booleans stored in documents that may also be None are the strings  *)
(*     "true" / "false";                                                   *)
(*   - time is counted in whole minutes.                                   *)
(***************************************************************************)
EXTENDS Integers, Sequences, FiniteSets, TLC

VARIABLES
    questions,            \* db.questions
    test_configurations,  \* db.test_configurations
    test_sessions,        \* db.test_sessions
    test_results,         \* db.test_results
    multi_stage_test_sessions,  \* db.multi_stage_test_sessions
    stage_results,        \* db.stage_results
    now,                  \* datetime.utcnow(), in minutes
    uuid,                 \* uuid.uuid4() values handed out, per collection
    pc,                   \* per request slot: the step the handler is at
    local,                \* per request slot: the handler's local variables
    response,             \* per request slot: the HTTP response the last step
                          \* sent, NoDoc when it sent none
    sel_result            \* return value of a direct get_randomized_questions
                          \* call, boxed: << >> before the call

vars == <<questions, test_configurations, test_sessions, test_results,
          multi_stage_test_sessions, stage_results, now, uuid, pc, local,
          response, sel_result>>

\* the collections of the single-stage engine
store_vars == <<questions, test_configurations, test_sessions, test_results>>

\* the collections of the multi-stage engine
multi_vars == <<multi_stage_test_sessions, stage_results>>

-----------------------------------------------------------------------------
(* Bounds of the model *)

MaxTime == 2          \* the clock runs from 0 to MaxTime
MaxSessions == 1      \* sessions the requests of a sequential run may create
PoolSize == 3         \* questions in the bank of a direct selection call
MaxTotal == 3         \* largest total_questions of a direct selection call
MaxEvaluations == 2   \* stage evaluations the officers may submit
MaxExtensions == 2    \* extension and reset records a session may hold

-----------------------------------------------------------------------------
(* Generic helpers *)

NoDoc == [none |-> TRUE]

Min(a, b) == IF a < b THEN a ELSE b

Range(s) == {s[i] : i \in 1..Len(s)}

RECURSIVE SelectSeq2(_, _, _)
\* the subsequence of s whose elements satisfy Test, given as the set of
\* accepted elements (a find() filter applied in natural order)
SelectSeq2(s, accepted, i) ==
    IF i > Len(s) THEN << >>
    ELSE IF s[i] \in accepted THEN <<s[i]>> \o SelectSeq2(s, accepted, i + 1)
    ELSE SelectSeq2(s, accepted, i + 1)

\* cursor.to_list(n): the first n documents of the cursor
to_list(cursor, n) == SubSeq(cursor, 1, Min(n, Len(cursor)))

\* random.shuffle(s): every permutation of s is a possible outcome
shuffle(s) ==
    {[i \in 1..Len(s) |-> s[p[i]]] : p \in Permutations(1..Len(s))}

\* serialize_doc on one document: the MongoDB _id field is skipped
serialize_one(doc) == [k \in (DOMAIN doc) \ {"_id"} |-> doc[k]]

\* serialize_doc on a list of documents
serialize_list(docs) == [i \in 1..Len(docs) |-> serialize_one(docs[i])]

\* serialize_doc: a list is serialized element by element, a dict field by
\* field; the only nested documents of this model are question_details
serialize_doc(doc) ==
    IF "question_details" \in DOMAIN doc
    THEN [k \in (DOMAIN doc) \ {"_id"} |->
            IF k = "question_details" THEN serialize_list(doc[k]) ELSE doc[k]]
    ELSE serialize_one(doc)

-----------------------------------------------------------------------------
(* Question bank documents (create_question) *)

\* a multiple-choice question whose second option is the correct one
MultipleChoice(id, category, difficulty, status) ==
    [_id |-> id, id |-> id, category_id |-> category,
     question_type |-> "multiple_choice",
     options |-> <<[text |-> "a", is_correct |-> FALSE],
                   [text |-> "b", is_correct |-> TRUE]>>,
     correct_answer |-> "None", difficulty |-> difficulty, status |-> status]

TrueFalse(id, category, difficulty, status) ==
    [_id |-> id, id |-> id, category_id |-> category,
     question_type |-> "true_false", options |-> << >>,
     correct_answer |-> "true", difficulty |-> difficulty, status |-> status]

VideoEmbedded(id, category, difficulty, status) ==
    [_id |-> id, id |-> id, category_id |-> category,
     question_type |-> "video_embedded", options |-> << >>,
     correct_answer |-> "None", difficulty |-> difficulty, status |-> status]

-----------------------------------------------------------------------------
(* Question Selector: get_randomized_questions *)

\* int((percentage / 100) * total_questions); for integer percentages in
\* 0..100 and totals below 8 the float product truncates to the exact floor
questions_needed(percentage, total_questions) ==
    (percentage * total_questions) \div 100

\* db.questions.find({category_id, difficulty, status: approved})
find_difficulty(bank, category_id, difficulty) ==
    SelectSeq2(bank,
               {q \in Range(bank) : /\ q.category_id = category_id
                                    /\ q.difficulty = difficulty
                                    /\ q.status = "approved"}, 1)

\* the same query without its $nin filter
find_additional_any(bank, category_id, question_ids) ==
    SelectSeq2(bank,
               {q \in Range(bank) : /\ q.category_id = category_id
                                    /\ q.status = "approved"}, 1)

\* db.questions.find({category_id, status: approved, id: {$nin: ids}})
find_additional(bank, category_id, question_ids) ==
    SelectSeq2(bank,
               {q \in Range(bank) : /\ q.category_id = category_id
                                    /\ q.status = "approved"
                                    /\ q.id \notin question_ids}, 1)

\* one pass of the loop over difficulty_dist.items(): the lists the bucket
\* can contribute (shuffle, then the first questions_needed)
bucket_choices(bank, category_id, total_questions, bucket) ==
    LET needed == questions_needed(bucket[2], total_questions)
        difficulty_questions ==
            to_list(find_difficulty(bank, category_id, bucket[1]), needed * 2)
    IN  IF needed > 0
        THEN {SubSeq(s, 1, Min(needed, Len(s))) : s \in shuffle(difficulty_questions)}
        ELSE {<< >>}

RECURSIVE bucket_loop(_, _, _, _, _)
\* the lists `questions` can hold after the loop has run from bucket i on
bucket_loop(bank, category_id, total_questions, dist, i) ==
    IF i > Len(dist) THEN {<< >>}
    ELSE {head \o tail :
            head \in bucket_choices(bank, category_id, total_questions, dist[i]),
            tail \in bucket_loop(bank, category_id, total_questions, dist, i + 1)}

\* the fill with any approved question of the category when the buckets
\* fell short
backfill(bank, category_id, total_questions, chosen) ==
    IF Len(chosen) < total_questions
    THEN chosen \o to_list(find_additional(bank, category_id,
                                           {q.id : q \in Range(chosen)}),
                           total_questions - Len(chosen))
    ELSE chosen

\* get_randomized_questions(test_config): every list it can return
get_randomized_questions(test_config, bank) ==
    UNION {shuffle(backfill(bank, test_config.category_id,
                            test_config.total_questions, chosen)) :
             chosen \in bucket_loop(bank, test_config.category_id,
                                    test_config.total_questions,
                                    test_config.difficulty_distribution, 1)}

-----------------------------------------------------------------------------
(* Test configurations (create_test_config / update_test_config) *)

TestConfiguration(id, total_questions, time_limit_minutes, dist) ==
    [_id |-> id, id |-> id, category_id |-> "cat1",
     total_questions |-> total_questions, pass_mark_percentage |-> 75,
     time_limit_minutes |-> time_limit_minutes, is_active |-> TRUE,
     difficulty_distribution |-> dist]

\* sum(difficulty_distribution.values())
RECURSIVE total_percentage(_)
total_percentage(dist) ==
    IF dist = << >> THEN 0 ELSE dist[1][2] + total_percentage(Tail(dist))

-----------------------------------------------------------------------------
(* Direct calls of the Question Selector on drawn banks and configurations *)

\* what a bank question of the drawn pools can be
SelKinds ==
    {<<"cat1", "easy", "approved">>, <<"cat1", "medium", "approved">>,
     <<"cat1", "hard", "approved">>, <<"cat1", "easy", "pending">>,
     <<"cat2", "easy", "approved">>}

SelIds == <<"q1", "q2", "q3", "q4", "q5">>

SelPools ==
    {[i \in 1..PoolSize |->
        MultipleChoice(SelIds[i], kinds[i][1], kinds[i][2], kinds[i][3])] :
     kinds \in [1..PoolSize -> SelKinds]}

\* the last one is what update_test_config, which validates nothing, can
\* leave behind: it does not sum to 100
SelDistributions ==
    {<<<<"easy", 30>>, <<"medium", 50>>, <<"hard", 20>>>>,
     <<<<"easy", 50>>, <<"medium", 50>>>>,
     <<<<"easy", 100>>>>,
     <<<<"medium", 34>>, <<"hard", 66>>>>,
     <<<<"easy", 100>>, <<"medium", 100>>>>}

SelConfigs ==
    {TestConfiguration("cfg1", total, 1, dist) :
        total \in 1..MaxTotal, dist \in SelDistributions}

InitUuid ==
    [test_sessions |-> 0, test_results |-> 0, multi_stage_test_sessions |-> 0,
     stage_results |-> 0]

InitRequests ==
    /\ pc = [r \in {1, 2} |-> "idle"]
    /\ local = [r \in {1, 2} |-> NoDoc]
    /\ response = [r \in {1, 2} |-> NoDoc]

InitSelect ==
    /\ questions \in SelPools
    /\ test_configurations \in {<<c>> : c \in SelConfigs}
    /\ test_sessions = << >>
    /\ test_results = << >>
    /\ multi_stage_test_sessions = << >>
    /\ stage_results = << >>
    /\ now = 0
    /\ uuid = InitUuid
    /\ InitRequests
    /\ sel_result = << >>

\* questions = await get_randomized_questions(test_config)
CallSelect ==
    /\ sel_result = << >>
    /\ \E result \in get_randomized_questions(test_configurations[1], questions) :
          sel_result' = <<result>>
    /\ UNCHANGED <<store_vars, now, uuid, pc, local, response, multi_vars>>

NextSelect == CallSelect

SpecSelect == InitSelect /\ [][NextSelect]_vars

\* the approved questions of the configuration's category
approved_pool(test_config, bank) ==
    {q \in Range(bank) : /\ q.category_id = test_config.category_id
                         /\ q.status = "approved"}

SelPrecondition ==
    /\ total_percentage(test_configurations[1].difficulty_distribution) = 100
    /\ Cardinality(approved_pool(test_configurations[1], questions))
          >= test_configurations[1].total_questions

\* C3: for a distribution that sums to 100 and a category that holds at
\* least total_questions approved questions, the selection returns exactly
\* total_questions questions, with pairwise distinct ids, every one approved
\* and of the configured category.
C3_SelectExact ==
    (sel_result # << >> /\ SelPrecondition) =>
        LET result == sel_result[1] IN
        /\ Len(result) = test_configurations[1].total_questions
        /\ \A i, j \in 1..Len(result) : result[i].id = result[j].id => i = j
        /\ \A i \in 1..Len(result) :
              /\ result[i].status = "approved"
              /\ result[i].category_id = test_configurations[1].category_id

\* a selection under the precondition in which a bucket fell short and the
\* backfill supplied a question of a difficulty the distribution does not name
C3_Witness ==
    /\ sel_result # << >>
    /\ SelPrecondition
    /\ test_configurations[1].total_questions = MaxTotal
    /\ \E i \in 1..Len(sel_result[1]) :
          \A b \in 1..Len(test_configurations[1].difficulty_distribution) :
              test_configurations[1].difficulty_distribution[b][1]
                 # sel_result[1][i].difficulty

-----------------------------------------------------------------------------
(* Document store primitives (motor / pymongo) *)

\* collection.find_one(filter): the first document the filter accepts
find_one(collection, accepted) ==
    LET found == SelectSeq2(collection, accepted, 1)
    IN  IF found = << >> THEN NoDoc ELSE found[1]

\* the effect of {"$set": fields} on one document
set_fields(doc, fields) ==
    [k \in (DOMAIN doc) \cup (DOMAIN fields) |->
        IF k \in DOMAIN fields THEN fields[k] ELSE doc[k]]

\* the effect of {"$push": {field: value}} on one document
push_field(doc, field, value) ==
    [doc EXCEPT ![field] = Append(doc[field], value)]

\* the effect of {"$addToSet": {field: value}} on one document
add_to_set(doc, field, value) ==
    IF value \in Range(doc[field]) THEN doc
    ELSE [doc EXCEPT ![field] = Append(doc[field], value)]

\* the effect of {"$pull": {field: value}} on one document
pull_field(doc, field, value) ==
    [doc EXCEPT ![field] = SelectSeq2(doc[field], Range(doc[field]) \ {value}, 1)]

\* An update document is the sequence of its entries in dict order, each
\* [key, operator, arg]: operator is TRUE when the key starts with "$".
\* pymongo's validate_ok_for_update, which update_one calls before anything
\* is sent: the document is not empty and its first key is an operator.
validate_ok_for_update(update) ==
    /\ update # << >>
    /\ update[1].operator

RECURSIVE apply_update(_, _)
\* the server applying the operators of a valid update document, in order
apply_update(doc, update) ==
    IF update = << >> THEN doc
    ELSE LET u == update[1]
             next ==
                CASE u.key = "$set" -> set_fields(doc, u.arg)
                  [] u.key = "$push" -> push_field(doc, u.arg[1], u.arg[2])
                  [] u.key = "$addToSet" -> add_to_set(doc, u.arg[1], u.arg[2])
                  [] u.key = "$pull" -> pull_field(doc, u.arg[1], u.arg[2])
                  [] OTHER -> doc
         IN  apply_update(next, Tail(update))

\* collection.update_one({"id": id}, update) on a valid update document
update_one(collection, id, update) ==
    [i \in 1..Len(collection) |->
        IF collection[i].id = id /\ \A j \in 1..(i - 1) : collection[j].id # id
        THEN apply_update(collection[i], update)
        ELSE collection[i]]

\* collection.insert_one(doc): the driver adds _id to the document
insert_one(collection, doc) ==
    Append(collection, [k \in (DOMAIN doc) \cup {"_id"} |->
                           IF k = "_id" THEN doc.id ELSE doc[k]])

-----------------------------------------------------------------------------
(* Requests *)

Candidates == {"cand1", "cand2"}

\* get_current_user of a session request: the candidate who owns the
\* sessions of the model, or another candidate
Callers ==
    {[role |-> "Candidate", candidate_id |-> c] : c \in Candidates}

HTTPException(op, request, status_code, detail) ==
    [op |-> op, request |-> request, status_code |-> status_code,
     body |-> [detail |-> detail]]

OK(op, request, body) ==
    [op |-> op, request |-> request, status_code |-> 200, body |-> body]

\* no response is sent by the step
NoResponse == [r \in {1, 2} |-> NoDoc]

\* the handler of slot r returns resp
Return(r, resp) ==
    /\ response' = [NoResponse EXCEPT ![r] = resp]
    /\ pc' = [pc EXCEPT ![r] = "idle"]
    /\ local' = [local EXCEPT ![r] = NoDoc]

\* the handler of slot r awaits its next database operation
Await(r, step, locals) ==
    /\ pc' = [pc EXCEPT ![r] = step]
    /\ local' = [local EXCEPT ![r] = locals]
    /\ response' = NoResponse

\* the candidate-ownership check shared by the session handlers
access_denied(current_user, session) ==
    /\ current_user.role = "Candidate"
    /\ session.candidate_id # current_user.candidate_id

-----------------------------------------------------------------------------
(* start_test_session *)

\* who may call start: candidate cand1 (approved or not, with or without a
\* verified appointment for today) or a staff member naming cand1
StartCallers ==
    {[role |-> "Candidate", candidate_id |-> "cand1", approved |-> a[1],
      access_granted |-> a[2]] :
        a \in {<<TRUE, TRUE>>, <<TRUE, FALSE>>, <<FALSE, TRUE>>}}
    \cup {[role |-> "Staff", candidate_id |-> "cand1", approved |-> TRUE,
           access_granted |-> TRUE]}

\* db.test_sessions.find_one({candidate_id, test_config_id, status: active})
find_active_session(sessions, candidate_id, test_config_id) ==
    find_one(sessions,
             {x \in Range(sessions) : /\ x.candidate_id = candidate_id
                                      /\ x.test_config_id = test_config_id
                                      /\ x.status = "active"})

\* the session document start_test_session builds
session_doc(id, test_data, test_config, selected, time) ==
    LET taken == SubSeq(selected, 1, Min(test_config.total_questions, Len(selected)))
    IN  [id |-> id,
         test_config_id |-> test_data.test_config_id,
         candidate_id |-> test_data.candidate_id,
         questions |-> [i \in 1..Len(taken) |-> taken[i].id],
         question_details |-> serialize_list(taken),
         start_time |-> time,
         end_time |-> time + test_config.time_limit_minutes,
         time_limit_minutes |-> test_config.time_limit_minutes,
         time_extensions |-> << >>,
         status |-> "active",
         current_question_index |-> 0,
         answers |-> << >>,
         bookmarked_questions |-> << >>]

\* the response of a start that created a session: the session without its
\* question details
start_response(doc) ==
    LET session_response == serialize_doc(doc)
    IN  [k \in (DOMAIN session_response) \ {"question_details"} |->
            session_response[k]]

\* never selects nothing short of the requested number
always_enough_questions(selected, test_config) == FALSE

\* if len(selected_questions) < test_config["total_questions"]
not_enough_questions(selected, test_config) ==
    Len(selected) < test_config.total_questions

\* start_test_session up to its insert: the candidate and access checks, the
\* configuration lookup, the active-session lookup and the question selection
start_test_session_read(r, test_config_id, current_user) ==
    LET op == "start_test_session"
        test_data == [test_config_id |-> test_config_id,
                      candidate_id |-> current_user.candidate_id]
        test_config ==
            find_one(test_configurations,
                     {c \in Range(test_configurations) :
                         c.id = test_config_id /\ c.is_active})
        active_session ==
            find_active_session(test_sessions, test_data.candidate_id,
                                test_data.test_config_id)
    IN
    /\ pc[r] = "idle"
    /\ IF current_user.role = "Candidate" /\ ~current_user.approved
       THEN /\ Return(r, HTTPException(op, test_data, 403,
                         "Only approved candidates can start tests"))
            /\ UNCHANGED <<test_sessions, uuid>>
       ELSE IF current_user.role = "Candidate" /\ ~current_user.access_granted
       THEN /\ Return(r, HTTPException(op, test_data, 403, "access denied"))
            /\ UNCHANGED <<test_sessions, uuid>>
       ELSE IF test_config = NoDoc
       THEN /\ Return(r, HTTPException(op, test_data, 404,
                         "Test configuration not found or inactive"))
            /\ UNCHANGED <<test_sessions, uuid>>
       ELSE IF active_session # NoDoc
       THEN /\ Return(r, OK(op, test_data, serialize_doc(active_session)))
            /\ UNCHANGED <<test_sessions, uuid>>
       ELSE \E selected \in get_randomized_questions(test_config, questions) :
              IF not_enough_questions(selected, test_config)
              THEN /\ Return(r, HTTPException(op, test_data, 400,
                                "Not enough approved questions available"))
                   /\ UNCHANGED <<test_sessions, uuid>>
              ELSE /\ uuid' = [uuid EXCEPT !.test_sessions = @ + 1]
                   /\ Await(r, "start_insert",
                            [request |-> test_data,
                             current_user |-> current_user,
                             session_doc |-> session_doc(uuid.test_sessions + 1, test_data,
                                                test_config, selected, now)])
                   /\ UNCHANGED test_sessions
    /\ UNCHANGED <<questions, test_configurations, test_results, now,
                   sel_result, multi_vars>>

\* await db.test_sessions.insert_one(session_doc), and the response
start_test_session_insert(r) ==
    /\ pc[r] = "start_insert"
    /\ test_sessions' = insert_one(test_sessions, local[r].session_doc)
    /\ Return(r, OK("start_test_session", local[r].request,
                    start_response(local[r].session_doc)))
    /\ UNCHANGED <<questions, test_configurations, test_results, now, uuid,
                   sel_result, multi_vars>>

\* a start request; the model lets it create a session only while fewer
\* than `limit` session ids have been handed out
StartRead(r, limit, callers) ==
    \E current_user \in callers :
        /\ start_test_session_read(r, "cfg1", current_user)
        /\ uuid' # uuid => uuid.test_sessions < limit

StartInsert(r) == start_test_session_insert(r)

-----------------------------------------------------------------------------
(* get_test_session *)

find_session(sessions, session_id) ==
    find_one(sessions, {x \in Range(sessions) : x.id = session_id})

\* get_test_session up to its update: the lookup, the ownership check and the
\* expiry test
get_test_session_read(r, session_id, current_user) ==
    LET op == "get_test_session"
        request == [session_id |-> session_id]
        session == find_session(test_sessions, session_id)
    IN
    /\ pc[r] = "idle"
    /\ IF session = NoDoc
       THEN Return(r, HTTPException(op, request, 404, "Test session not found"))
       ELSE IF access_denied(current_user, session)
       THEN Return(r, HTTPException(op, request, 403,
                         "Access denied to this test session"))
       ELSE IF session.status = "active" /\ now > session.end_time
       THEN Await(r, "get_session_update",
                  [request |-> request, session |-> session])
       ELSE Return(r, OK(op, request, serialize_doc(session)))
    /\ UNCHANGED <<store_vars, now, uuid, sel_result, multi_vars>>

\* await db.test_sessions.update_one({id}, {$set: {status: expired}}), then
\* session["status"] = "expired" and the response
get_test_session_update(r) ==
    /\ pc[r] = "get_session_update"
    /\ test_sessions' =
          update_one(test_sessions, local[r].session.id,
                     <<[key |-> "$set", operator |-> TRUE,
                        arg |-> [status |-> "expired"]]>>)
    /\ Return(r, OK("get_test_session", local[r].request,
                    serialize_doc([local[r].session EXCEPT !.status = "expired"])))
    /\ UNCHANGED <<questions, test_configurations, test_results, now, uuid,
                   sel_result, multi_vars>>

-----------------------------------------------------------------------------
(* get_question_by_index *)

\* no session ever counts as expired
never_expired(session, time) == FALSE

\* if datetime.utcnow() > session["end_time"]
has_expired(session, time) == time > session.end_time

\* the copy whose options keep their text only
strip_options(question) ==
    IF "options" \in DOMAIN question /\ question.options # << >>
    THEN [question EXCEPT !.options =
             [i \in 1..Len(question.options) |-> [text |-> question.options[i].text]]]
    ELSE question

\* the copy that keeps the correct_answer field
keep_correct_answer(question) == question

\* the copy without the correct_answer field
strip_correct_answer(question) ==
    IF "correct_answer" \in DOMAIN question
    THEN [k \in (DOMAIN question) \ {"correct_answer"} |-> question[k]]
    ELSE question

\* session["answers"].get(question_id)
current_answer(session, question_id) ==
    IF question_id \in DOMAIN session.answers
    THEN session.answers[question_id] ELSE NoDoc

\* the bank's present version of the question at the index
live_question(session, question_index) ==
    serialize_one(find_one(questions,
                           {q \in Range(questions) :
                               q.id = session.questions[question_index + 1]}))

\* question = session["question_details"][question_index]
snapshot_question(session, question_index) ==
    session.question_details[question_index + 1]

\* the question as get_question_by_index returns it (question_index from 0)
question_view(session, question_index) ==
    LET question ==
            strip_correct_answer(
                strip_options(snapshot_question(session, question_index)))
    IN  question @@
        [current_answer |-> current_answer(session, question.id),
         is_bookmarked |-> question.id \in Range(session.bookmarked_questions),
         question_number |-> question_index + 1,
         total_questions |-> Len(session.question_details)]

get_question_by_index(r, session_id, question_index, current_user) ==
    LET op == "get_question_by_index"
        request == [session_id |-> session_id, question_index |-> question_index]
        session == find_session(test_sessions, session_id)
    IN
    /\ pc[r] = "idle"
    /\ IF session = NoDoc
       THEN Return(r, HTTPException(op, request, 404, "Test session not found"))
       ELSE IF access_denied(current_user, session)
       THEN Return(r, HTTPException(op, request, 403,
                         "Access denied to this test session"))
       ELSE IF session.status # "active"
       THEN Return(r, HTTPException(op, request, 400,
                         "Test session is not active"))
       ELSE IF has_expired(session, now)
       THEN Return(r, HTTPException(op, request, 400,
                         "Test session has expired"))
       ELSE IF question_index < 0
               \/ question_index >= Len(session.question_details)
       THEN Return(r, HTTPException(op, request, 404, "Question not found"))
       ELSE Return(r, OK(op, request, question_view(session, question_index)))
    /\ UNCHANGED <<store_vars, now, uuid, sel_result, multi_vars>>

-----------------------------------------------------------------------------
(* save_test_answer *)

\* the TestAnswer bodies of the model
TestAnswers ==
    {[question_id |-> "q1", selected_option |-> "B", boolean_answer |-> "None",
      is_bookmarked |-> FALSE],
     [question_id |-> "q2", selected_option |-> "None", boolean_answer |-> "true",
      is_bookmarked |-> TRUE],
     [question_id |-> "q1", selected_option |-> "None", boolean_answer |-> "None",
      is_bookmarked |-> TRUE]}

\* the update document save_test_answer hands to update_one: the keys of
\* update_data that do not start with "$" first, then those that do
save_answer_update(answer_data) ==
    LET answer_entry ==
            IF answer_data.selected_option # "None"
               \/ answer_data.boolean_answer # "None"
            THEN <<[key |-> "answers", operator |-> FALSE,
                    arg |-> <<answer_data.question_id,
                              [selected_option |-> answer_data.selected_option,
                               boolean_answer |-> answer_data.boolean_answer]>>]>>
            ELSE << >>
        bookmark_entry ==
            IF answer_data.is_bookmarked
            THEN [key |-> "$addToSet", operator |-> TRUE,
                  arg |-> <<"bookmarked_questions", answer_data.question_id>>]
            ELSE [key |-> "$pull", operator |-> TRUE,
                  arg |-> <<"bookmarked_questions", answer_data.question_id>>]
        updated_at ==
            [key |-> "updated_at", operator |-> FALSE, arg |-> << >>]
    IN  answer_entry \o <<updated_at>> \o <<bookmark_entry>>

save_test_answer(r, session_id, answer_data, current_user) ==
    LET op == "save_test_answer"
        request == [session_id |-> session_id, answer_data |-> answer_data]
        session == find_session(test_sessions, session_id)
        update == save_answer_update(answer_data)
    IN
    /\ pc[r] = "idle"
    /\ IF session = NoDoc
       THEN /\ Return(r, HTTPException(op, request, 404, "Test session not found"))
            /\ UNCHANGED test_sessions
       ELSE IF access_denied(current_user, session)
       THEN /\ Return(r, HTTPException(op, request, 403,
                            "Access denied to this test session"))
            /\ UNCHANGED test_sessions
       ELSE IF session.status # "active"
       THEN /\ Return(r, HTTPException(op, request, 400,
                            "Cannot save answers to inactive test session"))
            /\ UNCHANGED test_sessions
       ELSE IF has_expired(session, now)
       THEN /\ Return(r, HTTPException(op, request, 400,
                            "Test session has expired"))
            /\ UNCHANGED test_sessions
       ELSE IF ~validate_ok_for_update(update)
       THEN \* ValueError("update only works with $ operators"): nothing is
            \* sent to the store and the request ends as a server error
            /\ Return(r, HTTPException(op, request, 500, "Internal Server Error"))
            /\ UNCHANGED test_sessions
       ELSE /\ test_sessions' = update_one(test_sessions, session_id, update)
            /\ Return(r, OK(op, request, [message |-> "Answer saved successfully"]))
    /\ UNCHANGED <<questions, test_configurations, test_results, now, uuid,
                   sel_result, multi_vars>>

-----------------------------------------------------------------------------
(* calculate_test_score and submit_test *)

\* chr(65 + i) for the option at list position i + 1
option_letter(position) == <<"A", "B", "C", "D">>[position]

\* answers_dict[answer.question_id] = answer, in list order: the last answer
\* given for a question id is the one kept
answers_dict(answers) ==
    [q \in {answers[i].question_id : i \in 1..Len(answers)} |->
        LET last == CHOOSE i \in 1..Len(answers) :
                       /\ answers[i].question_id = q
                       /\ \A j \in (i + 1)..Len(answers) : answers[j].question_id # q
        IN  answers[last]]

\* the letter of the first option flagged correct, None when there is none
correct_option(question) ==
    IF \E i \in 1..Len(question.options) : question.options[i].is_correct
    THEN option_letter(CHOOSE i \in 1..Len(question.options) :
                          /\ question.options[i].is_correct
                          /\ \A j \in 1..(i - 1) : ~question.options[j].is_correct)
    ELSE "None"

\* one entry of question_results
question_result(question, answered_by) ==
    LET answered == question.id \in DOMAIN answered_by
        user_answer == answered_by[question.id]
    IN  IF ~answered
        THEN [question_id |-> question.id, user_answer |-> "None",
              correct_answer |-> "None", is_correct |-> FALSE, answered |-> FALSE]
        ELSE IF question.question_type = "multiple_choice" /\ question.options # << >>
        THEN [question_id |-> question.id,
              user_answer |-> user_answer.selected_option,
              correct_answer |-> correct_option(question),
              is_correct |-> user_answer.selected_option = correct_option(question),
              answered |-> TRUE]
        ELSE IF question.question_type = "true_false"
        THEN [question_id |-> question.id,
              user_answer |-> user_answer.boolean_answer,
              correct_answer |-> question.correct_answer,
              is_correct |-> user_answer.boolean_answer = question.correct_answer,
              answered |-> TRUE]
        ELSE [question_id |-> question.id, user_answer |-> "None",
              correct_answer |-> "None", is_correct |-> FALSE, answered |-> TRUE]

\* round(correct / total * 100, 2), in hundredths of a percent; no quotient
\* of the model's totals lies halfway between two hundredths
score_percentage(correct, total) ==
    IF total > 0 THEN (2 * correct * 10000 + total) \div (2 * total) ELSE 0

calculate_test_score(session, answers) ==
    LET details == session.question_details
        results == [i \in 1..Len(details) |->
                       question_result(details[i], answers_dict(answers))]
        correct == Cardinality({i \in 1..Len(results) : results[i].is_correct})
    IN  [correct_answers |-> correct,
         answered_questions |->
             Cardinality({i \in 1..Len(results) : results[i].answered}),
         score_percentage |-> score_percentage(correct, Len(details)),
         question_results |-> results]

\* the answers lists of the model's TestSubmission bodies
SubmissionAnswers ==
    LET answer(q, option, boolean) ==
            [question_id |-> q, selected_option |-> option,
             boolean_answer |-> boolean, is_bookmarked |-> FALSE]
    IN  {<< >>,
         <<answer("q1", "B", "None"), answer("q2", "None", "true")>>,
         <<answer("q1", "A", "None"), answer("q2", "None", "true")>>}

\* a score equal to the pass mark does not pass
result_passed_above(score, pass_mark_percentage) == score > pass_mark_percentage * 100

\* score_result["score_percentage"] >= test_config["pass_mark_percentage"],
\* the score in hundredths of a percent
result_passed(score, pass_mark_percentage) == score >= pass_mark_percentage * 100

\* the result document submit_test builds
result_doc(id, session, score_result, test_config, time) ==
    [id |-> id,
     session_id |-> session.id,
     candidate_id |-> session.candidate_id,
     test_config_id |-> session.test_config_id,
     total_questions |-> Len(session.question_details),
     answered_questions |-> score_result.answered_questions,
     correct_answers |-> score_result.correct_answers,
     score_percentage |-> score_result.score_percentage,
     pass_mark |-> test_config.pass_mark_percentage,
     passed |-> result_passed(score_result.score_percentage,
                       test_config.pass_mark_percentage),
     time_taken_minutes |-> time - session.start_time,
     time_extensions |-> session.time_extensions,
     question_results |-> score_result.question_results]

\* every session is taken for submission
always_submittable(session) == FALSE

\* if session["status"] != "active"
not_submittable(session) == session.status # "active"

\* submit_test up to its first write: the lookup, the ownership and status
\* checks, the scoring and the configuration lookup
submit_test_read(r, session_id, answers, current_user) ==
    LET op == "submit_test"
        request == [session_id |-> session_id, answers |-> answers]
        session == find_session(test_sessions, session_id)
        test_config ==
            find_one(test_configurations,
                     {c \in Range(test_configurations) : c.id = session.test_config_id})
    IN
    /\ pc[r] = "idle"
    /\ IF session = NoDoc
       THEN /\ Return(r, HTTPException(op, request, 404, "Test session not found"))
            /\ UNCHANGED uuid
       ELSE IF access_denied(current_user, session)
       THEN /\ Return(r, HTTPException(op, request, 403,
                            "Access denied to this test session"))
            /\ UNCHANGED uuid
       ELSE IF not_submittable(session)
       THEN /\ Return(r, HTTPException(op, request, 400,
                            "Test session is not active"))
            /\ UNCHANGED uuid
       ELSE /\ uuid' = [uuid EXCEPT !.test_results = @ + 1]
            /\ Await(r, "submit_update",
                     [request |-> request,
                      result_doc |->
                          result_doc(uuid.test_results + 1, session,
                                     calculate_test_score(session, answers),
                                     test_config, now)])
    /\ UNCHANGED <<store_vars, now, sel_result, multi_vars>>

\* await db.test_sessions.update_one({id}, {$set: {status: completed}})
submit_test_update(r) ==
    /\ pc[r] = "submit_update"
    /\ test_sessions' =
          update_one(test_sessions, local[r].result_doc.session_id,
                     <<[key |-> "$set", operator |-> TRUE,
                        arg |-> [status |-> "completed"]]>>)
    /\ Await(r, "submit_insert", local[r])
    /\ UNCHANGED <<questions, test_configurations, test_results, now, uuid,
                   sel_result, multi_vars>>

\* await db.test_results.insert_one(result_doc), and the response
submit_test_insert(r) ==
    /\ pc[r] = "submit_insert"
    /\ test_results' = insert_one(test_results, local[r].result_doc)
    /\ Return(r, OK("submit_test", local[r].request,
                    serialize_doc(local[r].result_doc)))
    /\ UNCHANGED <<questions, test_configurations, test_sessions, now, uuid,
                   sel_result, multi_vars>>

-----------------------------------------------------------------------------
(* extend_test_time and reset_test_time *)

\* the callers of the time operations: an officer and the candidate
TimeCallers ==
    {[role |-> "Driver Assessment Officer", email |-> "officer1"],
     [role |-> "Candidate", email |-> "cand1"]}

\* the additional_minutes of the model's TimeExtension bodies: any integer
\* is accepted by the request model
AdditionalMinutes == {-1, 1}

\* session["end_time"] + timedelta(minutes=additional_minutes)
extended_end_time(session, additional_minutes) ==
    session.end_time + additional_minutes

\* datetime.utcnow() + timedelta(minutes=test_config["time_limit_minutes"])
reset_end_time(time, test_config) == time + test_config.time_limit_minutes

\* the update document without its log entry
time_update_unlogged(new_end_time, record) ==
    <<[key |-> "$set", operator |-> TRUE, arg |-> [end_time |-> new_end_time]]>>

\* the update document of extend_test_time and reset_test_time
time_update(new_end_time, record) ==
    <<[key |-> "$set", operator |-> TRUE, arg |-> [end_time |-> new_end_time]],
      [key |-> "$push", operator |-> TRUE, arg |-> <<"time_extensions", record>>]>>

\* every session is taken for an extension
always_extendable(session) == FALSE

\* if session["status"] != "active"
not_extendable(session) == session.status # "active"

\* extend_test_time up to its update: the role check, the lookup and the
\* status check
extend_test_time_read(r, session_id, additional_minutes, current_user) ==
    LET op == "extend_test_time"
        request == [session_id |-> session_id,
                    additional_minutes |-> additional_minutes]
        session == find_session(test_sessions, session_id)
    IN
    /\ pc[r] = "idle"
    /\ IF current_user.role \notin
              {"Manager", "Driver Assessment Officer", "Administrator"}
       THEN Return(r, HTTPException(op, request, 403,
                "Only managers and assessment officers can extend test time"))
       ELSE IF session = NoDoc
       THEN Return(r, HTTPException(op, request, 404, "Test session not found"))
       ELSE IF not_extendable(session)
       THEN Return(r, HTTPException(op, request, 400,
                "Cannot extend time for inactive test session"))
       ELSE Await(r, "extend_update",
                  [request |-> request,
                   new_end_time |-> extended_end_time(session, additional_minutes),
                   record |-> [extended_by |-> current_user.email,
                               additional_minutes |-> additional_minutes]])
    /\ UNCHANGED <<store_vars, multi_vars, now, uuid, sel_result>>

\* await db.test_sessions.update_one({id}, {$set: {end_time}, $push: ...}),
\* and the response
extend_test_time_update(r) ==
    /\ pc[r] = "extend_update"
    /\ test_sessions' =
          update_one(test_sessions, local[r].request.session_id,
                     time_update(local[r].new_end_time, local[r].record))
    /\ Return(r, OK("extend_test_time", local[r].request,
                    [new_end_time |-> local[r].new_end_time]))
    /\ UNCHANGED <<questions, test_configurations, test_results, multi_vars,
                   now, uuid, sel_result>>

\* reset_test_time up to its update: the role check, the session lookup,
\* the status check and the configuration lookup
reset_test_time_read(r, session_id, current_user) ==
    LET op == "reset_test_time"
        request == [session_id |-> session_id]
        session == find_session(test_sessions, session_id)
        test_config ==
            find_one(test_configurations,
                     {c \in Range(test_configurations) : c.id = session.test_config_id})
    IN
    /\ pc[r] = "idle"
    /\ IF current_user.role \notin
              {"Manager", "Driver Assessment Officer", "Administrator"}
       THEN Return(r, HTTPException(op, request, 403,
                "Only managers and assessment officers can reset test time"))
       ELSE IF session = NoDoc
       THEN Return(r, HTTPException(op, request, 404, "Test session not found"))
       ELSE IF session.status # "active"
       THEN Return(r, HTTPException(op, request, 400,
                "Cannot reset time for inactive test session"))
       ELSE Await(r, "reset_update",
                  [request |-> request,
                   new_end_time |-> reset_end_time(now, test_config),
                   record |-> [reset_by |-> current_user.email,
                               reset_to_minutes |-> test_config.time_limit_minutes]])
    /\ UNCHANGED <<store_vars, multi_vars, now, uuid, sel_result>>

\* await db.test_sessions.update_one({id}, {$set: {end_time}, $push: ...}),
\* and the response
reset_test_time_update(r) ==
    /\ pc[r] = "reset_update"
    /\ test_sessions' =
          update_one(test_sessions, local[r].request.session_id,
                     time_update(local[r].new_end_time, local[r].record))
    /\ Return(r, OK("reset_test_time", local[r].request,
                    [new_end_time |-> local[r].new_end_time]))
    /\ UNCHANGED <<questions, test_configurations, test_results, multi_vars,
                   now, uuid, sel_result>>

-----------------------------------------------------------------------------
(* Multi-stage sessions: start_multi_stage_test_session *)

\* db.multi_stage_test_configurations: one active configuration with the
\* default pass marks of MultiStageTestConfiguration
multi_stage_test_configurations ==
    << [_id |-> "mcfg1", id |-> "mcfg1", category_id |-> "cat1",
        written_pass_mark_percentage |-> 75, yard_pass_mark_percentage |-> 75,
        road_pass_mark_percentage |-> 75, is_active |-> TRUE] >>

\* MultiStageTestSession request bodies: with and without an appointment
MultiStageTestData ==
    {[test_config_id |-> "mcfg1", candidate_id |-> "cand1", appointment_id |-> a] :
        a \in {"None", "appt1"}}

\* callers of the multi-stage start: candidate cand1 (approved or not, with
\* or without the identity verification that grants access) and a staff
\* member starting a session for the candidate of the request body
MultiStartCallers ==
    {[role |-> "Candidate", candidate_id |-> "cand1", approved |-> a[1],
      access_granted |-> a[2]] :
        a \in {<<TRUE, TRUE>>, <<TRUE, FALSE>>, <<FALSE, TRUE>>}}
    \cup {[role |-> "Administrator", candidate_id |-> "None", approved |-> FALSE,
           access_granted |-> TRUE]}

\* find_one({candidate_id, test_config_id,
\*           status: {$in: [active, written_passed, yard_passed]}})
find_active_multi_stage_session(sessions, candidate_id, test_config_id) ==
    find_one(sessions,
             {s \in Range(sessions) :
                 /\ s.candidate_id = candidate_id
                 /\ s.test_config_id = test_config_id
                 /\ s.status \in {"active", "written_passed", "yard_passed"}})

\* the session_doc of start_multi_stage_test_session
multi_stage_session_doc(id, test_data) ==
    [id |-> id,
     test_config_id |-> test_data.test_config_id,
     candidate_id |-> test_data.candidate_id,
     appointment_id |-> test_data.appointment_id,
     status |-> "active",
     current_stage |-> "written",
     stage_results |->
        [written |-> [completed |-> FALSE, passed |-> "None", session_id |-> "None"],
         yard |-> [completed |-> FALSE, passed |-> "None", evaluated_by |-> "None"],
         road |-> [completed |-> FALSE, passed |-> "None", evaluated_by |-> "None"]]]

\* start_multi_stage_test_session up to the lookup of an active session.  The
\* name check_test_access is bound, when the handler runs, to the route
\* handler of that name, which takes two arguments: the call with three
\* raises TypeError and the request ends as a server error.
start_multi_stage_test_session_read(r, test_data_in, current_user) ==
    LET op == "start_multi_stage_test_session"
        test_data == IF current_user.role = "Candidate"
                     THEN [test_data_in EXCEPT !.candidate_id = current_user.candidate_id]
                     ELSE test_data_in
        test_config == find_one(multi_stage_test_configurations,
                         {c \in Range(multi_stage_test_configurations) :
                             c.id = test_data.test_config_id /\ c.is_active})
        active_session == find_active_multi_stage_session(
                              multi_stage_test_sessions, test_data.candidate_id,
                              test_data.test_config_id)
    IN
    /\ pc[r] = "idle"
    /\ IF current_user.role = "Candidate" /\ ~current_user.approved
       THEN /\ Return(r, HTTPException(op, test_data_in, 403,
                         "Only approved candidates can start tests"))
            /\ UNCHANGED uuid
       ELSE IF current_user.role = "Candidate" /\ test_data.appointment_id # "None"
       THEN /\ Return(r, HTTPException(op, test_data_in, 500, "TypeError"))
            /\ UNCHANGED uuid
       ELSE IF test_config = NoDoc
       THEN /\ Return(r, HTTPException(op, test_data_in, 404,
                         "Multi-stage test configuration not found or inactive"))
            /\ UNCHANGED uuid
       ELSE IF active_session # NoDoc
       THEN /\ Return(r, OK(op, test_data_in, serialize_doc(active_session)))
            /\ UNCHANGED uuid
       ELSE /\ uuid' = [uuid EXCEPT !.multi_stage_test_sessions = @ + 1]
            /\ Await(r, "multi_start_insert",
                     [request |-> test_data_in,
                      current_user |-> current_user,
                      session_doc |-> multi_stage_session_doc(
                          uuid.multi_stage_test_sessions + 1, test_data)])
    /\ UNCHANGED <<store_vars, multi_vars, now, sel_result>>

\* await db.multi_stage_test_sessions.insert_one(session_doc), and the response
start_multi_stage_test_session_insert(r) ==
    /\ pc[r] = "multi_start_insert"
    /\ multi_stage_test_sessions' =
           insert_one(multi_stage_test_sessions, local[r].session_doc)
    /\ Return(r, OK("start_multi_stage_test_session", local[r].request,
                    serialize_doc(local[r].session_doc)))
    /\ UNCHANGED <<store_vars, stage_results, now, uuid, sel_result>>

\* find_one({"id": session_id}) on db.multi_stage_test_sessions
find_multi_stage_session(sessions, session_id) ==
    find_one(sessions, {s \in Range(sessions) : s.id = session_id})

\* $set of dotted paths stage_results.<stage>.<field>
set_stage_fields(doc, stage, fields) ==
    [doc EXCEPT !.stage_results[stage] =
        [k \in (DOMAIN @) \cup (DOMAIN fields) |->
            IF k \in DOMAIN fields THEN fields[k] ELSE @[k]]]

\* Completion of the written stage, as the specification describes it: on
\* pass the session moves to the yard stage with status written_passed, on
\* fail it becomes failed and stays at the written stage.
complete_written_stage(session_id, passed) ==
    LET session == find_multi_stage_session(multi_stage_test_sessions, session_id)
        slot == [completed |-> TRUE, passed |-> IF passed THEN "true" ELSE "false"]
        done == set_stage_fields(session, "written", slot)
        after == IF passed
                 THEN set_fields(done, [current_stage |-> "yard",
                                        status |-> "written_passed"])
                 ELSE set_fields(done, [status |-> "failed"])
    IN
    /\ \A r \in DOMAIN pc : pc[r] = "idle"
    /\ session # NoDoc
    /\ session.current_stage = "written"
    /\ session.status = "active"
    /\ multi_stage_test_sessions' =
           [i \in 1..Len(multi_stage_test_sessions) |->
               IF multi_stage_test_sessions[i].id = session_id
               THEN after ELSE multi_stage_test_sessions[i]]
    /\ response' = NoResponse
    /\ UNCHANGED <<store_vars, stage_results, now, uuid, pc, local, sel_result>>

-----------------------------------------------------------------------------
(* evaluate_stage *)

\* db.evaluation_criteria: a critical and an ordinary criterion of the yard
\* stage and a critical criterion of the road stage
evaluation_criteria ==
    << [_id |-> "y1", id |-> "y1", stage |-> "yard", max_score |-> 10,
        is_critical |-> TRUE, is_active |-> TRUE],
       [_id |-> "y2", id |-> "y2", stage |-> "yard", max_score |-> 10,
        is_critical |-> FALSE, is_active |-> TRUE],
       [_id |-> "r1", id |-> "r1", stage |-> "road", max_score |-> 10,
        is_critical |-> TRUE, is_active |-> TRUE] >>

\* the evaluations lists of the model's StageResult bodies
StageEvaluations ==
    LET evaluation(c, score) == [criterion_id |-> c, score |-> score]
    IN  {<< >>,
         <<evaluation("y1", 10), evaluation("y2", 10)>>,
         <<evaluation("y1", 10), evaluation("y2", 0)>>,
         <<evaluation("r1", 10)>>}

\* the callers of evaluate_stage
Evaluators ==
    {[role |-> "Driver Assessment Officer", email |-> "officer1"],
     [role |-> "Candidate", email |-> "cand1"]}

\* find_one({id: criterion_id, stage: stage, is_active: True})
find_criterion(criterion_id, stage) ==
    find_one(evaluation_criteria,
             {c \in Range(evaluation_criteria) :
                 c.id = criterion_id /\ c.stage = stage /\ c.is_active})

\* no score fails a critical criterion
critical_ignored(criterion, evaluation) == FALSE

\* if criterion["is_critical"] and evaluation.score < criterion["max_score"]
critical_failed(criterion, evaluation) ==
    criterion.is_critical /\ evaluation.score < criterion.max_score

RECURSIVE stage_score(_, _, _)
\* the scoring loop of evaluate_stage over evaluations[i..]: total_score,
\* max_possible_score and critical_passed
stage_score(evaluations, stage, i) ==
    IF i > Len(evaluations)
    THEN [total_score |-> 0, max_possible_score |-> 0, critical_passed |-> TRUE]
    ELSE LET criterion == find_criterion(evaluations[i].criterion_id, stage)
             rest == stage_score(evaluations, stage, i + 1)
         IN  IF criterion = NoDoc THEN rest
             ELSE [total_score |-> evaluations[i].score + rest.total_score,
                   max_possible_score |->
                       criterion.max_score + rest.max_possible_score,
                   critical_passed |->
                       /\ rest.critical_passed
                       /\ ~critical_failed(criterion, evaluations[i])]

\* test_config.get("<stage>_pass_mark_percentage", 75)
pass_mark(test_config, stage) ==
    IF stage = "yard" THEN test_config.yard_pass_mark_percentage
    ELSE IF stage = "road" THEN test_config.road_pass_mark_percentage
    ELSE 75

\* score_percentage >= pass_percentage and critical_passed
stage_passed(score, pass_percentage) ==
    /\ IF score.max_possible_score > 0
       THEN score.total_score * 100 >= pass_percentage * score.max_possible_score
       ELSE 0 >= pass_percentage
    /\ score.critical_passed

\* the result document of evaluate_stage
stage_result_doc(id, stage_result, session, test_config, current_user) ==
    LET score == stage_score(stage_result.evaluations, stage_result.stage, 1)
        pass_percentage == pass_mark(test_config, stage_result.stage)
    IN  [id |-> id,
         session_id |-> stage_result.session_id,
         candidate_id |-> session.candidate_id,
         test_config_id |-> session.test_config_id,
         stage |-> stage_result.stage,
         evaluations |-> stage_result.evaluations,
         total_score |-> score.total_score,
         max_possible_score |-> score.max_possible_score,
         score_percentage |->
             score_percentage(score.total_score, score.max_possible_score),
         pass_percentage |-> pass_percentage,
         passed |-> stage_passed(score, pass_percentage),
         critical_passed |-> score.critical_passed,
         evaluated_by |-> current_user.email]

\* the $set document of a stage that never advances the session
stage_update_in_place(result, current_user) ==
    [slot |-> [completed |-> TRUE,
               passed |-> IF result.passed THEN "true" ELSE "false",
               evaluated_by |-> current_user.email,
               result_id |-> result.id],
     session |->
        IF result.passed
        THEN [status |-> IF result.stage = "yard" THEN "yard_passed" ELSE "completed"]
        ELSE [status |-> "failed", failed_stage |-> result.stage]]

\* the $set document of evaluate_stage: the fields of the stage's slot and
\* the top-level fields of the session
stage_update(result, current_user) ==
    [slot |-> [completed |-> TRUE,
               passed |-> IF result.passed THEN "true" ELSE "false",
               evaluated_by |-> current_user.email,
               result_id |-> result.id],
     session |->
        IF result.passed
        THEN IF result.stage = "yard"
             THEN [current_stage |-> "road", status |-> "yard_passed"]
             ELSE [current_stage |-> "completed", status |-> "completed"]
        ELSE [status |-> "failed", failed_stage |-> result.stage]]

\* every stage is taken for the session's current stage
never_mismatch(session, stage_result) == FALSE

\* if session["current_stage"] != stage_result.stage
stage_mismatch(session, stage_result) ==
    session.current_stage # stage_result.stage

\* evaluate_stage up to its insert: the role and stage checks, the session
\* and configuration lookups and the scoring
evaluate_stage_read(r, stage_result, current_user) ==
    LET op == "evaluate_stage"
        session == find_multi_stage_session(multi_stage_test_sessions,
                                            stage_result.session_id)
        test_config == find_one(multi_stage_test_configurations,
                         {c \in Range(multi_stage_test_configurations) :
                             c.id = session.test_config_id})
    IN
    /\ pc[r] = "idle"
    /\ IF current_user.role \notin
              {"Driver Assessment Officer", "Manager", "Administrator"}
       THEN /\ Return(r, HTTPException(op, stage_result, 403,
                         "Only assessment officers can evaluate test stages"))
            /\ UNCHANGED uuid
       ELSE IF stage_result.stage \notin {"yard", "road"}
       THEN /\ Return(r, HTTPException(op, stage_result, 400,
                         "Can only evaluate 'yard' or 'road' stages"))
            /\ UNCHANGED uuid
       ELSE IF session = NoDoc
       THEN /\ Return(r, HTTPException(op, stage_result, 404,
                         "Multi-stage test session not found"))
            /\ UNCHANGED uuid
       ELSE IF stage_mismatch(session, stage_result)
       THEN /\ Return(r, HTTPException(op, stage_result, 400,
                         "Cannot evaluate stage"))
            /\ UNCHANGED uuid
       ELSE IF test_config = NoDoc
       THEN /\ Return(r, HTTPException(op, stage_result, 404,
                         "Multi-stage test configuration not found"))
            /\ UNCHANGED uuid
       ELSE LET result == stage_result_doc(uuid.stage_results + 1, stage_result,
                                           session, test_config, current_user)
            IN  /\ uuid' = [uuid EXCEPT !.stage_results = @ + 1]
                /\ Await(r, "evaluate_insert",
                         [request |-> stage_result, result_doc |-> result,
                          stage_update |-> stage_update(result, current_user)])
    /\ UNCHANGED <<store_vars, multi_vars, now, sel_result>>

\* await db.stage_results.insert_one(result_doc)
evaluate_stage_insert(r) ==
    /\ pc[r] = "evaluate_insert"
    /\ stage_results' = insert_one(stage_results, local[r].result_doc)
    /\ Await(r, "evaluate_update", local[r])
    /\ UNCHANGED <<store_vars, multi_stage_test_sessions, now, uuid, sel_result>>

\* await db.multi_stage_test_sessions.update_one({id}, {$set: stage_update}),
\* and the response
evaluate_stage_update(r) ==
    LET session_id == local[r].request.session_id
        stage == local[r].request.stage
    IN
    /\ pc[r] = "evaluate_update"
    /\ multi_stage_test_sessions' =
           [i \in 1..Len(multi_stage_test_sessions) |->
               IF /\ multi_stage_test_sessions[i].id = session_id
                  /\ \A j \in 1..(i - 1) : multi_stage_test_sessions[j].id # session_id
               THEN set_fields(
                        set_stage_fields(multi_stage_test_sessions[i], stage,
                                         local[r].stage_update.slot),
                        local[r].stage_update.session)
               ELSE multi_stage_test_sessions[i]]
    /\ Return(r, OK("evaluate_stage", local[r].request,
                    serialize_doc(local[r].result_doc)))
    /\ UNCHANGED <<store_vars, stage_results, now, uuid, sel_result>>

-----------------------------------------------------------------------------
(* The environment: the clock and the question bank *)

\* time passes
Tick ==
    /\ now < MaxTime
    /\ now' = now + 1
    /\ response' = NoResponse
    /\ UNCHANGED <<store_vars, uuid, pc, local, sel_result, multi_vars>>

\* approve_reject_question: $set status on the question
approve_reject_question(question_id, action) ==
    /\ \E i \in 1..Len(questions) : questions[i].id = question_id
    /\ questions' =
          update_one(questions, question_id,
                     <<[key |-> "$set", operator |-> TRUE,
                        arg |-> [status |-> IF action = "approve"
                                            THEN "approved" ELSE "rejected"]]>>)
    /\ response' = NoResponse
    /\ UNCHANGED <<test_configurations, test_sessions, test_results, now, uuid,
                   pc, local, sel_result, multi_vars>>

\* the QuestionUpdate bodies of the model, each with the fields it gives:
\* new options (other texts, the first one correct), or a new true/false key
QuestionUpdates ==
    <<[options |-> <<[text |-> "c", is_correct |-> TRUE],
                     [text |-> "d", is_correct |-> FALSE]>>],
      [correct_answer |-> "false"]>>

\* who edits questions: an administrator, and a staff member who created
\* none of the bank's questions
Editors == {[role |-> "Administrator"], [role |-> "Regional Director"]}

\* update_data of update_question, with the status reset to pending
question_update(question_data) ==
    [k \in (DOMAIN question_data) \cup {"status"} |->
        IF k = "status" THEN "pending" ELSE question_data[k]]

\* update_question: only a question that is not approved is edited, and the
\* edit sets it back to pending
update_question(r, question_id, question_data, current_user) ==
    LET op == "update_question"
        request == [question_id |-> question_id]
        question == find_one(questions,
                             {q \in Range(questions) : q.id = question_id})
    IN
    /\ pc[r] = "idle"
    /\ IF question = NoDoc
       THEN /\ Return(r, HTTPException(op, request, 404, "Question not found"))
            /\ UNCHANGED questions
       ELSE IF current_user.role # "Administrator"
       THEN /\ Return(r, HTTPException(op, request, 403,
                            "Not authorized to edit this question"))
            /\ UNCHANGED questions
       ELSE IF question.status = "approved"
       THEN /\ Return(r, HTTPException(op, request, 400,
                            "Cannot edit approved questions"))
            /\ UNCHANGED questions
       ELSE /\ questions' =
                  update_one(questions, question_id,
                             <<[key |-> "$set", operator |-> TRUE,
                                arg |-> question_update(question_data)]>>)
            /\ Return(r, OK(op, request,
                            [message |-> "Question updated successfully"]))
    /\ UNCHANGED <<test_configurations, test_sessions, test_results, now, uuid,
                   sel_result, multi_vars>>

\* update_test_config: an administrator sets the fields given in the body
update_test_config(r, config_id, config_data, current_user) ==
    LET op == "update_test_config"
        request == [config_id |-> config_id]
        config == find_one(test_configurations,
                           {c \in Range(test_configurations) : c.id = config_id})
    IN
    /\ pc[r] = "idle"
    /\ IF current_user.role # "Administrator"
       THEN /\ Return(r, HTTPException(op, request, 403,
                            "Only administrators can update test configurations"))
            /\ UNCHANGED test_configurations
       ELSE IF config = NoDoc
       THEN /\ Return(r, HTTPException(op, request, 404,
                            "Test configuration not found"))
            /\ UNCHANGED test_configurations
       ELSE /\ test_configurations' =
                  update_one(test_configurations, config_id,
                             <<[key |-> "$set", operator |-> TRUE,
                                arg |-> config_data]>>)
            /\ Return(r, OK(op, request,
                            [message |-> "Test configuration updated successfully"]))
    /\ UNCHANGED <<questions, test_sessions, test_results, now, uuid,
                   sel_result, multi_vars>>

-----------------------------------------------------------------------------
(* The specifications *)

SessionIds == 1..(MaxSessions + 1)

Init ==
    /\ questions = <<MultipleChoice("q1", "cat1", "easy", "approved"),
                     TrueFalse("q2", "cat1", "medium", "approved"),
                     VideoEmbedded("q3", "cat1", "hard", "approved")>>
    /\ test_configurations =
          <<TestConfiguration("cfg1", 2, 1, <<<<"easy", 50>>, <<"medium", 50>>>>)>>
    /\ test_sessions = << >>
    /\ test_results = << >>
    /\ multi_stage_test_sessions = << >>
    /\ stage_results = << >>
    /\ now = 0
    /\ uuid = InitUuid
    /\ InitRequests
    /\ sel_result = << >>

GetSessionRead(r, callers) ==
    \E session_id \in SessionIds, current_user \in callers :
        get_test_session_read(r, session_id, current_user)

GetSessionUpdate(r) == get_test_session_update(r)

GetQuestion(r) ==
    \E session_id \in SessionIds, question_index \in -1..2, current_user \in Callers :
        get_question_by_index(r, session_id, question_index, current_user)

SaveAnswer(r) ==
    \E session_id \in SessionIds, answer_data \in TestAnswers, current_user \in Callers :
        save_test_answer(r, session_id, answer_data, current_user)

SubmitRead(r, answers_given, callers) ==
    \E session_id \in SessionIds, answers \in answers_given,
       current_user \in callers :
        submit_test_read(r, session_id, answers, current_user)

SubmitUpdate(r) == submit_test_update(r)

SubmitInsert(r) == submit_test_insert(r)

ApproveRejectQuestion ==
    \E question_id \in {"q1", "q3"}, action \in {"approve", "reject"} :
        approve_reject_question(question_id, action)

\* one request at a time: the handlers run one after the other
Next ==
    \/ StartRead(1, MaxSessions, StartCallers)
    \/ StartInsert(1)
    \/ GetSessionRead(1, Callers)
    \/ GetSessionUpdate(1)
    \/ GetQuestion(1)
    \/ SaveAnswer(1)
    \/ SubmitRead(1, SubmissionAnswers, Callers)
    \/ SubmitUpdate(1)
    \/ SubmitInsert(1)
    \/ Tick
    \/ ApproveRejectQuestion

Spec == Init /\ [][Next]_vars

\* the callers of the concurrent requests: the approved, verified candidate
\* who owns the sessions
Owner == [role |-> "Candidate", candidate_id |-> "cand1", approved |-> TRUE,
          access_granted |-> TRUE]

\* two requests in flight: their steps interleave at every await; one more
\* session than in a sequential run may be created
NextConc ==
    \/ \E r \in {1, 2} :
          \/ StartRead(r, MaxSessions + 1, {Owner})
          \/ StartInsert(r)
          \/ SubmitRead(r, {<< >>}, {Owner})
          \/ SubmitUpdate(r)
          \/ SubmitInsert(r)
    \/ Tick

SpecConc == Init /\ [][NextConc]_vars

-----------------------------------------------------------------------------
(* Starting sessions, single-stage and multi-stage, one request at a time *)

MultiStartRead(r, limit) ==
    \E test_data \in MultiStageTestData, current_user \in MultiStartCallers :
        /\ start_multi_stage_test_session_read(r, test_data, current_user)
        /\ uuid' # uuid => uuid.multi_stage_test_sessions < limit

MultiStartInsert(r) == start_multi_stage_test_session_insert(r)

CompleteWritten ==
    \E session_id \in SessionIds, passed \in BOOLEAN :
        complete_written_stage(session_id, passed)

EvaluateRead(r, evaluators, evaluations_given) ==
    \E session_id \in SessionIds, stage \in {"written", "yard", "road"},
       evaluations \in evaluations_given, current_user \in evaluators :
        /\ evaluate_stage_read(r, [session_id |-> session_id, stage |-> stage,
                                   evaluations |-> evaluations], current_user)
        /\ uuid' # uuid => uuid.stage_results < MaxEvaluations

EvaluateInsert(r) == evaluate_stage_insert(r)

EvaluateUpdate(r) == evaluate_stage_update(r)

NextStart ==
    \/ StartRead(1, MaxSessions, StartCallers)
    \/ StartInsert(1)
    \/ SubmitRead(1, {<< >>}, {Owner})
    \/ SubmitUpdate(1)
    \/ SubmitInsert(1)
    \/ MultiStartRead(1, MaxSessions)
    \/ MultiStartInsert(1)
    \/ CompleteWritten
    \/ EvaluateRead(1, Evaluators, StageEvaluations)
    \/ EvaluateInsert(1)
    \/ EvaluateUpdate(1)

SpecStart == Init /\ [][NextStart]_vars

\* a step of slot 1 that handles the start of a single-stage session up to
\* its return or its insert
SingleStartStep ==
    /\ pc[1] = "idle"
    /\ \/ pc'[1] = "start_insert"
       \/ response'[1] # NoDoc /\ response'[1].op = "start_test_session"

\* a step of slot 1 that handles the start of a multi-stage session up to
\* its return or its insert
MultiStartStep ==
    /\ pc[1] = "idle"
    /\ \/ pc'[1] = "multi_start_insert"
       \/ response'[1] # NoDoc /\ response'[1].op = "start_multi_stage_test_session"

\* the request a step of slot 1 handles
StepRequest ==
    IF response'[1] # NoDoc THEN response'[1].request ELSE local'[1].request

\* Sequential starts are idempotent, except that a start may be refused with
\* one of the status codes `refusals`:
\*  - a single-stage start for a (candidate, config) that has an active
\*    session creates nothing and, unless refused, returns that session's id;
\*  - a multi-stage start for a (candidate, config) that has a session of
\*    status active, written_passed or yard_passed creates nothing and, unless
\*    refused, returns that session as it is stored;
\*  - a multi-stage session is created with current_stage written, status
\*    active, and three slots with completed false and passed unset.
start_idempotent(refusals) ==
    /\ SingleStartStep =>
         LET request == StepRequest
             existing == find_active_session(test_sessions, request.candidate_id,
                                             request.test_config_id)
         IN  existing # NoDoc =>
               /\ pc'[1] = "idle"
               /\ test_sessions' = test_sessions
               /\ response'[1].status_code \notin refusals =>
                    /\ response'[1].status_code = 200
                    /\ response'[1].body.id = existing.id
    /\ MultiStartStep =>
         LET request == StepRequest
             existing == find_active_multi_stage_session(
                             multi_stage_test_sessions, request.candidate_id,
                             request.test_config_id)
         IN  existing # NoDoc =>
               /\ pc'[1] = "idle"
               /\ multi_stage_test_sessions' = multi_stage_test_sessions
               /\ response'[1].status_code \notin refusals =>
                    /\ response'[1].status_code = 200
                    /\ response'[1].body = serialize_doc(existing)
    /\ (pc[1] = "multi_start_insert" /\ pc'[1] = "idle") =>
         /\ Len(multi_stage_test_sessions') = Len(multi_stage_test_sessions) + 1
         /\ LET created == multi_stage_test_sessions'[Len(multi_stage_test_sessions')]
            IN  /\ created.current_stage = "written"
                /\ created.status = "active"
                /\ \A stage \in {"written", "yard", "road"} :
                      /\ created.stage_results[stage].completed = FALSE
                      /\ created.stage_results[stage].passed = "None"

\* C2: start is idempotent when called sequentially: a second single-stage
\* start for the same (candidate, config) while the session is active returns
\* the same session id and creates no session; a second multi-stage start
\* while the session is active, written_passed or yard_passed returns that
\* session unchanged; a new multi-stage session has current_stage written,
\* status active and three slots with completed false and passed unset.  The
\* only refusal granted to a start is 403, that of the approval and access
\* checks.
C2_StartIdempotent == [][start_idempotent({403})]_vars

\* The same property when the server error of a candidate's multi-stage start
\* that carries an appointment id counts as a refusal too.
StartIdempotentPastAccessCheck == [][start_idempotent({403, 500})]_vars

\* a candidate's multi-stage start with an appointment id was answered with a
\* server error although the candidate's session, in status yard_passed, is
\* there to be returned
C2_ResumeFails ==
    /\ response[1] # NoDoc
    /\ response[1].op = "start_multi_stage_test_session"
    /\ response[1].status_code = 500
    /\ \E s \in Range(multi_stage_test_sessions) :
          /\ s.candidate_id = response[1].request.candidate_id
          /\ s.test_config_id = response[1].request.test_config_id
          /\ s.status = "yard_passed"

\* a multi-stage start returned the stored session of status written_passed
\* or yard_passed
MultiStartResumed ==
    /\ response[1] # NoDoc
    /\ response[1].op = "start_multi_stage_test_session"
    /\ response[1].status_code = 200
    /\ response[1].body.status \in {"written_passed", "yard_passed"}

-----------------------------------------------------------------------------
(* Properties of the single-stage engine *)

\* the single-stage sessions of status active of a (candidate, config) pair
active_sessions(candidate_id, test_config_id) ==
    {i \in 1..Len(test_sessions) :
        /\ test_sessions[i].candidate_id = candidate_id
        /\ test_sessions[i].test_config_id = test_config_id
        /\ test_sessions[i].status = "active"}

\* C1: in every reachable state, for every interleaving of start requests
\* (a read of the session store, then a separate insert), at most one
\* single-stage session of status active exists per (candidate_id,
\* test_config_id) pair.
C1_OneActiveSession ==
    \A i, j \in 1..Len(test_sessions) :
        j \in active_sessions(test_sessions[i].candidate_id,
                              test_sessions[i].test_config_id)
        /\ test_sessions[i].status = "active"
        => i = j

\* the results stored for a session
results_of(results, session_id) ==
    {i \in 1..Len(results) : results[i].session_id = session_id}

\* C10: for any interleaving of two concurrent submit requests on the same
\* active session (a read, then the status write and the result insert as
\* separate steps), at most one result is ever stored for that session.
C10_OneResult ==
    \A i \in 1..Len(test_results) :
        Cardinality(results_of(test_results, test_results[i].session_id)) <= 1

\* the configuration of a stored session
config_of(session) ==
    find_one(test_configurations,
             {c \in Range(test_configurations) : c.id = session.test_config_id})

\* C4: if fewer than total_questions approved questions are available for
\* the configuration's category, a start that has no active session to return
\* fails (400, or 403 when the caller is refused before the selection) and
\* stores no session; and every stored single-stage session holds exactly
\* total_questions question ids and a snapshot of the same length.
C4_FullQuestionSet ==
    [][ /\ SingleStartStep =>
             LET request == StepRequest
                 test_config ==
                     find_one(test_configurations,
                              {c \in Range(test_configurations) :
                                  c.id = request.test_config_id})
                 existing == find_active_session(test_sessions,
                                 request.candidate_id, request.test_config_id)
             IN  (/\ existing = NoDoc
                  /\ Cardinality(approved_pool(test_config, questions))
                        < test_config.total_questions)
                 => /\ pc'[1] = "idle"
                    /\ response'[1].status_code \in {400, 403}
                    /\ test_sessions' = test_sessions
        /\ \A i \in 1..Len(test_sessions') :
             LET session == test_sessions'[i]
             IN  /\ Len(session.questions) = config_of(session).total_questions
                 /\ Len(session.question_details) = Len(session.questions)
      ]_vars

\* a start was refused for lack of approved questions while an earlier
\* session, with its full question set, is stored
C4_Witness ==
    /\ response[1] # NoDoc
    /\ response[1].op = "start_test_session"
    /\ response[1].status_code = 400
    /\ Cardinality(approved_pool(test_configurations[1], questions))
          < test_configurations[1].total_questions
    /\ Len(test_sessions) = 1
    /\ Len(test_sessions[1].questions) = test_configurations[1].total_questions

\* C5: the question get_question returns for a valid index has no is_correct
\* flag on any option and no correct_answer field, and carries the
\* candidate's current answer for that question, its bookmark state and
\* question_number = index + 1.
C5_QuestionView ==
    (/\ response[1] # NoDoc
     /\ response[1].op = "get_question_by_index"
     /\ response[1].status_code = 200)
    => LET request == response[1].request
           body == response[1].body
           session == find_session(test_sessions, request.session_id)
           question_id == session.questions[request.question_index + 1]
       IN  /\ body.id = question_id
           /\ "correct_answer" \notin DOMAIN body
           /\ \A i \in 1..Len(body.options) :
                 "is_correct" \notin DOMAIN body.options[i]
           /\ body.current_answer =
                 (IF question_id \in DOMAIN session.answers
                  THEN session.answers[question_id] ELSE NoDoc)
           /\ body.is_bookmarked =
                 (question_id \in Range(session.bookmarked_questions))
           /\ body.question_number = request.question_index + 1

\* both questions of a session were served in turn: here the second one, a
\* true/false question, whose stored snapshot holds the correct answer
C5_Witness ==
    /\ response[1] # NoDoc
    /\ response[1].op = "get_question_by_index"
    /\ response[1].status_code = 200
    /\ response[1].request.question_index = 1
    /\ response[1].body.question_type = "true_false"
    /\ \E s \in Range(test_sessions) :
          /\ s.id = response[1].request.session_id
          /\ s.question_details[2].correct_answer = "true"

\* C6: no response of start (whether it creates a session or returns the
\* existing active one) and no response of get_session contains the
\* session's question snapshot with its correct-answer data.
C6_NoSnapshotInResponses ==
    (/\ response[1] # NoDoc
     /\ response[1].op \in {"start_test_session", "get_test_session"}
     /\ response[1].status_code = 200)
    => "question_details" \notin DOMAIN response[1].body

\* C7: get_question and save_answer succeed only when the session's status
\* is active and now <= end_time (and, for get_question, the index lies in
\* [0, number of questions)); a call that fails leaves the stored sessions
\* unchanged.
C7_OnlyWhileActive ==
    [][ (/\ pc[1] = "idle"
         /\ response'[1] # NoDoc
         /\ response'[1].op \in {"get_question_by_index", "save_test_answer"})
        => LET request == response'[1].request
               session == find_session(test_sessions, request.session_id)
           IN  /\ response'[1].status_code = 200 =>
                     /\ session # NoDoc
                     /\ session.status = "active"
                     /\ now <= session.end_time
                     /\ response'[1].op = "get_question_by_index" =>
                           /\ request.question_index >= 0
                           /\ request.question_index < Len(session.questions)
               /\ response'[1].status_code # 200 =>
                     test_sessions' = test_sessions
      ]_vars

\* get_question was refused on a session whose status is still active but
\* whose end_time has passed
C7_Witness ==
    /\ response[1] # NoDoc
    /\ response[1].op = "get_question_by_index"
    /\ response[1].status_code = 400
    /\ \E s \in Range(test_sessions) :
          /\ s.id = response[1].request.session_id
          /\ s.status = "active"
          /\ now > s.end_time

\* C8: save_answer by the owner on an active, unexpired session succeeds,
\* and after it the stored answer of question_id equals the submitted answer
\* (when one was supplied; otherwise it is unchanged), question_id is in the
\* bookmark set iff bookmark is true, and the answers and bookmarks of the
\* other questions are unchanged.
C8_SaveAnswer ==
    [][ (/\ pc[1] = "idle"
         /\ response'[1] # NoDoc
         /\ response'[1].op = "save_test_answer")
        => LET request == response'[1].request
               answer_data == request.answer_data
               question_id == answer_data.question_id
               before == find_session(test_sessions, request.session_id)
               after == find_session(test_sessions', request.session_id)
               supplied == \/ answer_data.selected_option # "None"
                           \/ answer_data.boolean_answer # "None"
           IN  (/\ before # NoDoc
                /\ before.status = "active"
                /\ now <= before.end_time
                /\ response'[1].status_code # 403)
               => /\ response'[1].status_code = 200
                  /\ supplied =>
                        /\ question_id \in DOMAIN after.answers
                        /\ after.answers[question_id].selected_option
                              = answer_data.selected_option
                        /\ after.answers[question_id].boolean_answer
                              = answer_data.boolean_answer
                  /\ ~supplied =>
                        \A q \in {question_id} \cap DOMAIN before.answers :
                            after.answers[q] = before.answers[q]
                  /\ (question_id \in Range(after.bookmarked_questions))
                        = answer_data.is_bookmarked
                  /\ \A q \in (DOMAIN before.answers) \ {question_id} :
                        q \in DOMAIN after.answers
                        /\ after.answers[q] = before.answers[q]
                  /\ Range(after.bookmarked_questions) \ {question_id}
                        = Range(before.bookmarked_questions) \ {question_id}
      ]_vars

\* a step of slot 1 that handles a submit up to its return or its first write
SubmitStep ==
    /\ pc[1] = "idle"
    /\ \/ pc'[1] = "submit_update"
       \/ response'[1] # NoDoc /\ response'[1].op = "submit_test"

\* C9: submit on a session of status active stores exactly one result for
\* that session and sets the session's status to completed; submit on a
\* session whose status is completed, expired or cancelled is rejected,
\* stores no result and leaves the session unchanged.
C9_SubmitOnce ==
    [][ /\ SubmitStep =>
             LET request == StepRequest
                 session == find_session(test_sessions, request.session_id)
             IN  session # NoDoc =>
                   /\ (session.status = "active"
                       /\ ~(response'[1] # NoDoc /\ response'[1].status_code = 403))
                      => pc'[1] = "submit_update"
                   /\ session.status \in {"completed", "expired", "cancelled"}
                      => /\ pc'[1] = "idle"
                         /\ response'[1].status_code \in {400, 403}
                         /\ test_sessions' = test_sessions
                         /\ test_results' = test_results
        /\ (pc[1] = "submit_insert" /\ pc'[1] = "idle") =>
             LET session_id == response'[1].request.session_id
             IN  /\ response'[1].status_code = 200
                 /\ Cardinality(results_of(test_results', session_id)) = 1
                 /\ find_session(test_sessions', session_id).status = "completed"
      ]_vars

\* a second submit was rejected on the session a first submit completed, and
\* the session has its one result
C9_Witness ==
    /\ response[1] # NoDoc
    /\ response[1].op = "submit_test"
    /\ response[1].status_code = 400
    /\ \E s \in Range(test_sessions) :
          /\ s.id = response[1].request.session_id
          /\ s.status = "completed"
          /\ Cardinality(results_of(test_results, s.id)) = 1

-----------------------------------------------------------------------------
(* Late submits *)

\* C11: a submit request that arrives when now > end_time is rejected and
\* scores nothing, also when the stored status is still active because no
\* read has yet set it to expired.
C11_LateSubmitRejected ==
    [][ SubmitStep =>
          LET session == find_session(test_sessions, StepRequest.session_id)
          IN  (session # NoDoc /\ now > session.end_time)
              => /\ pc'[1] = "idle"
                 /\ response'[1].status_code # 200
      ]_vars

-----------------------------------------------------------------------------
(* Time management of one session, one request at a time *)

\* the TestAnswer body of the owner's save requests
OwnerAnswer ==
    [question_id |-> "q1", selected_option |-> "B", boolean_answer |-> "None",
     is_bookmarked |-> FALSE]

OwnerGetQuestion(r) ==
    \E session_id \in SessionIds :
        get_question_by_index(r, session_id, 0, Owner)

OwnerSaveAnswer(r) ==
    \E session_id \in SessionIds :
        save_test_answer(r, session_id, OwnerAnswer, Owner)

\* an extend request; the model lets it go through only while the session
\* holds fewer than MaxExtensions extension records
ExtendRead(r, callers) ==
    \E session_id \in SessionIds, additional_minutes \in AdditionalMinutes,
       current_user \in callers :
        /\ extend_test_time_read(r, session_id, additional_minutes, current_user)
        /\ pc'[r] = "extend_update" =>
              Len(find_session(test_sessions, session_id).time_extensions)
                 < MaxExtensions

ExtendUpdate(r) == extend_test_time_update(r)

\* a reset request, under the same cap
ResetRead(r, callers) ==
    \E session_id \in SessionIds, current_user \in callers :
        /\ reset_test_time_read(r, session_id, current_user)
        /\ pc'[r] = "reset_update" =>
              Len(find_session(test_sessions, session_id).time_extensions)
                 < MaxExtensions

ResetUpdate(r) == reset_test_time_update(r)

NextTime ==
    \/ StartRead(1, MaxSessions, {Owner})
    \/ StartInsert(1)
    \/ GetSessionRead(1, {Owner})
    \/ GetSessionUpdate(1)
    \/ OwnerGetQuestion(1)
    \/ OwnerSaveAnswer(1)
    \/ SubmitRead(1, {<< >>}, {Owner})
    \/ SubmitUpdate(1)
    \/ SubmitInsert(1)
    \/ ExtendRead(1, TimeCallers)
    \/ ExtendUpdate(1)
    \/ ResetRead(1, TimeCallers)
    \/ ResetUpdate(1)
    \/ Tick

SpecTime == Init /\ [][NextTime]_vars

-----------------------------------------------------------------------------
(* Reads and submits of one session, two requests in flight *)

NextExpire ==
    \/ StartRead(1, MaxSessions, {Owner})
    \/ StartInsert(1)
    \/ \E r \in {1, 2} :
          \/ GetSessionRead(r, {Owner})
          \/ GetSessionUpdate(r)
          \/ SubmitRead(r, {<< >>}, {Owner})
          \/ SubmitUpdate(r)
          \/ SubmitInsert(r)
    \/ Tick

SpecExpire == Init /\ [][NextExpire]_vars

\* C12: once a single-stage session's status is completed, expired or
\* cancelled, no operation and no interleaving of concurrent requests (in
\* particular a get_session that read the session as active and overdue,
\* racing with a submit) ever changes that status again.
C12_StatusFinal ==
    [][ \A i \in 1..Len(test_sessions) :
          test_sessions[i].status \in {"completed", "expired", "cancelled"}
          => test_sessions'[i].status = test_sessions[i].status
      ]_vars

-----------------------------------------------------------------------------
(* Properties of expiry and of the time operations *)

\* a step of slot 1 that handles a get_session up to its return or its update
GetSessionStep ==
    /\ pc[1] = "idle"
    /\ \/ pc'[1] = "get_session_update"
       \/ response'[1] # NoDoc /\ response'[1].op = "get_test_session"

\* a step of slot 1 that handles a get_question, save_answer, submit, extend
\* or reset up to its return or its first write
SessionOperationStep ==
    /\ pc[1] = "idle"
    /\ \/ pc'[1] \in {"submit_update", "extend_update", "reset_update"}
       \/ /\ response'[1] # NoDoc
          /\ response'[1].op \in {"get_question_by_index", "save_test_answer",
                                  "submit_test", "extend_test_time",
                                  "reset_test_time"}

\* C13: get_session on a session with status active and now > end_time
\* succeeds, stores status expired and returns the session with status
\* expired; every later get_question, save_answer, submit, extend or reset on
\* that session is rejected.
C13_LazyExpiry ==
    [][ /\ GetSessionStep =>
             LET session == find_session(test_sessions, StepRequest.session_id)
             IN  (/\ session # NoDoc
                  /\ session.status = "active"
                  /\ now > session.end_time
                  /\ ~(response'[1] # NoDoc /\ response'[1].status_code = 403))
                 => pc'[1] = "get_session_update"
        /\ (pc[1] = "get_session_update" /\ pc'[1] = "idle") =>
             LET session_id == response'[1].request.session_id
             IN  /\ response'[1].status_code = 200
                 /\ response'[1].body.status = "expired"
                 /\ find_session(test_sessions', session_id).status = "expired"
        /\ \A i \in 1..Len(test_sessions) :
             test_sessions[i].status = "expired"
             => test_sessions'[i].status = "expired"
        /\ SessionOperationStep =>
             LET session == find_session(test_sessions, StepRequest.session_id)
             IN  (session # NoDoc /\ session.status = "expired")
                 => /\ pc'[1] = "idle"
                    /\ response'[1].status_code \in {400, 403}
                    /\ test_sessions' = test_sessions
                    /\ test_results' = test_results
      ]_vars

\* an officer's extend was rejected on a session that a get_session had
\* found overdue and set to expired
C13_Witness ==
    /\ response[1] # NoDoc
    /\ response[1].op = "extend_test_time"
    /\ response[1].status_code = 400
    /\ \E s \in Range(test_sessions) :
          /\ s.id = response[1].request.session_id
          /\ s.status = "expired"
          /\ now > s.end_time

\* the end_time of the session of id session_id in a session store
end_time_of(sessions, session_id) == find_session(sessions, session_id).end_time

\* C14: for every extend request the operation accepts (every integer
\* additional_minutes), the session's end_time after the call is greater
\* than or equal to its end_time before the call.
C14_ExtendOnlyIncreases ==
    [][ (pc[1] = "extend_update" /\ pc'[1] = "idle")
        => end_time_of(test_sessions', local[1].request.session_id)
              >= end_time_of(test_sessions, local[1].request.session_id)
      ]_vars

\* C15: over any sequence of extend and reset operations on a session,
\* end_time never moves to an earlier instant than its previous value; in
\* particular a reset issued after an extension does not shorten the
\* deadline.  Stated for the resets and for the extensions by a non-negative
\* number of minutes.
C15_DeadlineNeverEarlier ==
    [][ (/\ pc'[1] = "idle"
         /\ \/ pc[1] = "reset_update"
            \/ pc[1] = "extend_update"
               /\ local[1].request.additional_minutes >= 0)
        => end_time_of(test_sessions', local[1].request.session_id)
              >= end_time_of(test_sessions, local[1].request.session_id)
      ]_vars

-----------------------------------------------------------------------------
(* Scoring of submitted answer lists on a started session *)

\* the pass marks of the drawn configurations
PassMarks == {50, 75, 100}

\* the answers lists of the drawn submissions: complete, partial, wrong, in
\* both orders, and with two answers for one question id
ScoreAnswers ==
    LET mc(option) == [question_id |-> "q1", selected_option |-> option,
                       boolean_answer |-> "None", is_bookmarked |-> FALSE]
        tf(boolean) == [question_id |-> "q2", selected_option |-> "None",
                        boolean_answer |-> boolean, is_bookmarked |-> FALSE]
    IN  {<< >>, <<mc("B")>>, <<tf("false")>>,
         <<mc("B"), tf("true")>>, <<tf("true"), mc("B")>>,
         <<mc("B"), tf("false")>>, <<mc("A"), tf("false")>>,
         <<mc("A"), mc("B")>>, <<mc("B"), mc("A")>>,
         <<mc("B"), tf("false"), tf("true")>>}

\* a bank, a configuration with a drawn pass mark, and one session that the
\* owner started at minute 0 from one of the selector's results
InitScore ==
    /\ questions = <<MultipleChoice("q1", "cat1", "easy", "approved"),
                     TrueFalse("q2", "cat1", "medium", "approved"),
                     VideoEmbedded("q3", "cat1", "hard", "approved")>>
    /\ \E pass_mark_percentage \in PassMarks :
          test_configurations =
             <<[TestConfiguration("cfg1", 2, 1, <<<<"easy", 50>>, <<"medium", 50>>>>)
                  EXCEPT !.pass_mark_percentage = pass_mark_percentage]>>
    /\ \E selected \in get_randomized_questions(test_configurations[1], questions) :
          test_sessions =
             insert_one(<< >>,
                        session_doc(1, [test_config_id |-> "cfg1",
                                        candidate_id |-> Owner.candidate_id],
                                    test_configurations[1], selected, 0))
    /\ test_results = << >>
    /\ multi_stage_test_sessions = << >>
    /\ stage_results = << >>
    /\ now = 0
    /\ uuid = [InitUuid EXCEPT !.test_sessions = 1]
    /\ InitRequests
    /\ sel_result = << >>

NextScore ==
    \/ SubmitRead(1, ScoreAnswers, {Owner})
    \/ SubmitUpdate(1)
    \/ SubmitInsert(1)
    \/ Tick

SpecScore == InitScore /\ [][NextScore]_vars

\* C16: score_percentage of every result lies in [0, 100], correct_answers
\* is at most the number of snapshot questions, and passed is true iff
\* score_percentage >= the configuration's pass mark; 16 correct of 20 is 80
\* and passes a pass mark of 75.
C16_ScoreRange ==
    /\ \A result \in Range(test_results) :
          /\ result.score_percentage >= 0
          /\ result.score_percentage <= 100 * 100
          /\ result.correct_answers <= result.total_questions
          /\ result.total_questions
                = Len(find_session(test_sessions, result.session_id).question_details)
          /\ result.pass_mark = config_of(result).pass_mark_percentage
          /\ result.passed
                <=> result.score_percentage >= result.pass_mark * 100
    /\ score_percentage(16, 20) = 80 * 100
    /\ result_passed(score_percentage(16, 20), 75)

\* a result whose score equals the pass mark, and passed
C16_Witness ==
    \E result \in Range(test_results) :
        /\ result.correct_answers = 1
        /\ result.score_percentage = 50 * 100
        /\ result.pass_mark = 50
        /\ result.passed

\* the answers list in the order given by a permutation of its positions
permuted(answers, order) == [i \in 1..Len(answers) |-> answers[order[i]]]

\* C17: the score computed by submit is the same for every permutation of
\* the submitted answers list, including lists that contain more than one
\* answer for the same question id.
C17_OrderIndependent ==
    pc[1] = "submit_update" =>
        LET answers == local[1].request.answers
            session == find_session(test_sessions, local[1].request.session_id)
        IN  \A order \in Permutations(1..Len(answers)) :
               calculate_test_score(session, permuted(answers, order)).score_percentage
                  = local[1].result_doc.score_percentage

-----------------------------------------------------------------------------
(* Changes of the question bank while a session is in progress *)

UpdateQuestion(r) ==
    \E question_id \in {"q1", "q2", "q4"}, n \in 1..Len(QuestionUpdates),
       current_user \in Editors :
        update_question(r, question_id, QuestionUpdates[n], current_user)

NextBank ==
    \/ StartRead(1, MaxSessions, {Owner})
    \/ StartInsert(1)
    \/ OwnerGetQuestion(1)
    \/ SubmitRead(1, SubmissionAnswers, {Owner})
    \/ SubmitUpdate(1)
    \/ SubmitInsert(1)
    \/ ApproveRejectQuestion
    \/ UpdateQuestion(1)

SpecBank == Init /\ [][NextBank]_vars

\* the key of a snapshot question as the scoring reports it
snapshot_key(question) ==
    IF question.question_type = "multiple_choice" /\ question.options # << >>
    THEN correct_option(question)
    ELSE IF question.question_type = "true_false"
    THEN question.correct_answer
    ELSE "None"

\* C18: after a session is started, no change to the live question bank (an
\* edit of a question's options or key, or a change of its approval status)
\* changes what get_question returns for that session or how submit scores
\* it: the stored snapshot never changes, a bank change writes no session
\* and no result, and both operations read only the snapshot.
C18_SnapshotFrozen ==
    [][ /\ \A i \in 1..Len(test_sessions) :
             /\ test_sessions'[i].question_details = test_sessions[i].question_details
             /\ test_sessions'[i].questions = test_sessions[i].questions
        /\ questions' # questions
             => /\ test_sessions' = test_sessions
                /\ test_results' = test_results
        /\ (/\ response'[1] # NoDoc
            /\ response'[1].op = "get_question_by_index"
            /\ response'[1].status_code = 200)
           => LET request == response'[1].request
                  body == response'[1].body
                  session == find_session(test_sessions, request.session_id)
                  question == session.question_details[request.question_index + 1]
              IN  /\ body.id = question.id
                  /\ body.question_type = question.question_type
                  /\ body.difficulty = question.difficulty
                  /\ Len(body.options) = Len(question.options)
                  /\ \A i \in 1..Len(body.options) :
                        body.options[i].text = question.options[i].text
        /\ (pc[1] = "idle" /\ pc'[1] = "submit_update")
           => LET request == local'[1].request
                  session == find_session(test_sessions, request.session_id)
                  details == session.question_details
                  results == local'[1].result_doc.question_results
              IN  /\ Len(results) = Len(details)
                  /\ \A i \in 1..Len(details) :
                        /\ results[i].question_id = details[i].id
                        /\ results[i].answered
                              => /\ results[i].correct_answer = snapshot_key(details[i])
                                 /\ results[i].is_correct
                                       <=> results[i].user_answer
                                              = snapshot_key(details[i])
      ]_vars

\* get_question served the first question of a session from the snapshot
\* after that question's options were replaced in the bank
C18_Witness ==
    /\ response[1] # NoDoc
    /\ response[1].op = "get_question_by_index"
    /\ response[1].status_code = 200
    /\ \E s \in Range(test_sessions), q \in Range(questions) :
          /\ s.id = response[1].request.session_id
          /\ q.id = s.question_details[1].id
          /\ q.options # s.question_details[1].options
          /\ response[1].body.options # strip_options(q).options

-----------------------------------------------------------------------------
(* The access gate of the start operations *)

\* C19: a candidate-initiated start, single-stage or multi-stage, never
\* creates a session when the access gate denies access; for the multi-stage
\* start this holds whether or not the request carries an appointment_id.
C19_GateHonoured ==
    [][ (/\ pc[1] \in {"start_insert", "multi_start_insert"}
         /\ pc'[1] = "idle"
         /\ \/ Len(test_sessions') > Len(test_sessions)
            \/ Len(multi_stage_test_sessions') > Len(multi_stage_test_sessions))
        => (local[1].current_user.role = "Candidate"
            => local[1].current_user.access_granted)
      ]_vars

-----------------------------------------------------------------------------
(* The stages of a multi-stage session, by the operations of the code *)

\* the operations the code has on single-stage and multi-stage sessions, one
\* request at a time: the written test is started and submitted as a
\* single-stage session
NextMulti ==
    \/ StartRead(1, MaxSessions, {Owner})
    \/ StartInsert(1)
    \/ SubmitRead(1, SubmissionAnswers, {Owner})
    \/ SubmitUpdate(1)
    \/ SubmitInsert(1)
    \/ MultiStartRead(1, MaxSessions)
    \/ MultiStartInsert(1)
    \/ EvaluateRead(1, Evaluators, StageEvaluations)

SpecMulti == Init /\ [][NextMulti]_vars

\* the multi-stage session at position i passed its written stage
written_passed(sessions, i) ==
    /\ sessions[i].current_stage = "yard"
    /\ sessions[i].status = "written_passed"

\* the multi-stage session at position i failed its written stage
written_failed(sessions, i) ==
    /\ sessions[i].current_stage = "written"
    /\ sessions[i].status = "failed"

\* within three steps of the operations the session at position i can be
\* brought to pass, and to fail, its written stage
CanCompleteWritten(i) ==
    LET Step(P) == ENABLED (NextMulti /\ P')
        Within3(P) == P \/ Step(P \/ Step(P \/ Step(P)))
    IN  /\ Within3(written_passed(multi_stage_test_sessions, i))
        /\ Within3(written_failed(multi_stage_test_sessions, i))

\* C20: when the written test of a multi-stage session is passed, the
\* session moves to current_stage yard and status written_passed; when it is
\* failed, status becomes failed with current_stage still written: for every
\* session at the written stage with status active, while no request is in
\* progress, some sequence of operations brings it to either outcome.
C20_WrittenStageCompletes ==
    \A i \in 1..Len(multi_stage_test_sessions) :
        (/\ multi_stage_test_sessions[i].current_stage = "written"
         /\ multi_stage_test_sessions[i].status = "active"
         /\ pc[1] = "idle")
        => CanCompleteWritten(i)

-----------------------------------------------------------------------------
(* Evaluation of the practical stages *)

\* the evaluations lists of the evaluated stages: every criterion at its
\* maximum, a critical criterion below its maximum with a high total, a low
\* total, a list that omits the critical criterion, and the road stage
CriticalEvaluations ==
    LET evaluation(c, score) == [criterion_id |-> c, score |-> score]
    IN  {<<evaluation("y1", 10), evaluation("y2", 10)>>,
         <<evaluation("y1", 9), evaluation("y2", 10)>>,
         <<evaluation("y1", 10), evaluation("y2", 0)>>,
         <<evaluation("y2", 10)>>,
         <<evaluation("r1", 10)>>,
         <<evaluation("r1", 9)>>}

\* a staff member starts the multi-stage session of candidate cand1
StaffMultiStart(r) ==
    \E current_user \in {u \in MultiStartCallers : u.role # "Candidate"} :
        /\ start_multi_stage_test_session_read(
               r, [test_config_id |-> "mcfg1", candidate_id |-> "cand1",
                   appointment_id |-> "None"], current_user)
        /\ uuid' # uuid => uuid.multi_stage_test_sessions < MaxSessions

\* one request at a time
NextEval ==
    \/ StaffMultiStart(1)
    \/ MultiStartInsert(1)
    \/ CompleteWritten
    \/ EvaluateRead(1, Evaluators, CriticalEvaluations)
    \/ EvaluateInsert(1)
    \/ EvaluateUpdate(1)

SpecEval == Init /\ [][NextEval]_vars

\* the officer among the evaluators
Officers == {u \in Evaluators : u.role = "Driver Assessment Officer"}

\* two evaluate_stage requests at a time, step by step
NextEvalConc ==
    \/ StaffMultiStart(1)
    \/ MultiStartInsert(1)
    \/ CompleteWritten
    \/ \E r \in {1, 2} :
          \/ EvaluateRead(r, Officers, CriticalEvaluations)
          \/ EvaluateInsert(r)
          \/ EvaluateUpdate(r)

SpecEvalConc == Init /\ [][NextEvalConc]_vars

\* the stage slot is passed
slot_passed(session, stage) == session.stage_results[stage].passed = "true"

\* the first stage in the order written, yard, road whose slot is not passed
first_unpassed(session) ==
    IF ~slot_passed(session, "written") THEN "written"
    ELSE IF ~slot_passed(session, "yard") THEN "yard"
    ELSE IF ~slot_passed(session, "road") THEN "road"
    ELSE "completed"

\* the stage a failed session failed at: the recorded failed_stage, or the
\* written stage, whose failure records none
failed_at(session) ==
    IF "failed_stage" \in DOMAIN session THEN session.failed_stage ELSE "written"

\* C21: in every reachable state of a multi-stage session, including the
\* states reached by interleaved concurrent evaluate_stage requests: if status
\* is neither failed nor completed, current_stage is the first stage in
\* written, yard, road order whose slot is not passed; if status is failed,
\* current_stage equals failed_stage; if status is completed, current_stage
\* is completed and all practical stages are passed.
C21_CurrentStage ==
    \A session \in Range(multi_stage_test_sessions) :
        /\ session.status \notin {"failed", "completed"}
              => session.current_stage = first_unpassed(session)
        /\ session.status = "failed"
              => session.current_stage = failed_at(session)
        /\ session.status = "completed"
              => /\ session.current_stage = "completed"
                 /\ slot_passed(session, "yard")
                 /\ slot_passed(session, "road")

\* a step of slot 1 that handles an evaluate_stage up to its return or its
\* insert
EvaluateStep ==
    /\ pc[1] = "idle"
    /\ \/ pc'[1] = "evaluate_insert"
       \/ response'[1] # NoDoc /\ response'[1].op = "evaluate_stage"

\* C22: once a multi-stage session has status failed, no operation changes
\* its status, current_stage or stage result slots: an evaluate_stage request
\* for the stage it failed at is rejected and writes no StageResult.
C22_FailedIsFinal ==
    [][ /\ \A i \in 1..Len(multi_stage_test_sessions) :
             multi_stage_test_sessions[i].status = "failed"
             => /\ multi_stage_test_sessions'[i].status = "failed"
                /\ multi_stage_test_sessions'[i].current_stage
                      = multi_stage_test_sessions[i].current_stage
                /\ multi_stage_test_sessions'[i].stage_results
                      = multi_stage_test_sessions[i].stage_results
        /\ EvaluateStep =>
             LET session == find_multi_stage_session(multi_stage_test_sessions,
                                                     StepRequest.session_id)
             IN  (session # NoDoc /\ session.status = "failed")
                 => /\ pc'[1] = "idle"
                    /\ response'[1].status_code # 200
                    /\ stage_results' = stage_results
      ]_vars

critical_below_max(request) ==
    \E i \in 1..Len(request.evaluations), c \in Range(evaluation_criteria) :
        /\ c.id = request.evaluations[i].criterion_id
        /\ c.stage = request.stage
        /\ c.is_active
        /\ c.is_critical
        /\ request.evaluations[i].score < c.max_score

\* C24: in evaluate_stage, if any submitted evaluation gives an active
\* critical criterion of the stage a score below that criterion's max_score,
\* then critical_passed is false and the stage is failed (status failed,
\* failed_stage the stage), whatever the aggregate percentage and pass mark.
C24_CriticalFails ==
    [][ (/\ pc[1] = "evaluate_update"
         /\ pc'[1] = "idle"
         /\ critical_below_max(local[1].request))
        => LET request == local[1].request
               session == find_multi_stage_session(multi_stage_test_sessions',
                                                   request.session_id)
               result == stage_results'[Len(stage_results')]
           IN  /\ result.session_id = request.session_id
               /\ result.stage = request.stage
               /\ ~result.critical_passed
               /\ ~result.passed
               /\ session.status = "failed"
               /\ session.failed_stage = request.stage
               /\ session.stage_results[request.stage].passed = "false"
      ]_vars

\* a yard stage failed on its critical criterion with a total of 95 percent,
\* above the pass mark
C24_Witness ==
    \E session \in Range(multi_stage_test_sessions),
       result \in Range(stage_results) :
        /\ result.session_id = session.id
        /\ result.stage = "yard"
        /\ result.total_score * 100 >= result.pass_percentage * result.max_possible_score
        /\ result.max_possible_score > 0
        /\ ~result.critical_passed
        /\ session.status = "failed"
        /\ failed_at(session) = "yard"

\* slot r holds an evaluate_stage request that passed its checks
evaluating(r) == pc[r] \in {"evaluate_insert", "evaluate_update"}

\* C25: for any interleaving of two concurrent evaluate_stage requests for
\* the same session and the same stage, at most one of them is accepted: of
\* two requests in progress at most one has written its StageResult, and the
\* session holds at most one StageResult for that stage.
C25_OneEvaluationAccepted ==
    (/\ evaluating(1)
     /\ evaluating(2)
     /\ local[1].request.session_id = local[2].request.session_id
     /\ local[1].request.stage = local[2].request.stage)
    => Cardinality({result \in Range(stage_results) :
                       result.id \in {local[1].result_doc.id,
                                      local[2].result_doc.id}}) <= 1

\* C26: every accepted evaluate_stage writes exactly one StageResult and
\* marks the stage slot completed with the computed pass flag; on pass of
\* yard the session becomes current_stage road, status yard_passed; on pass
\* of road it becomes current_stage completed, status completed; on fail
\* status becomes failed, failed_stage is the evaluated stage and
\* current_stage is unchanged.
C26_EvaluationEffect ==
    [][ /\ EvaluateStep => stage_results' = stage_results
        /\ (pc[1] = "evaluate_insert" /\ pc'[1] = "evaluate_update")
             => /\ Len(stage_results') = Len(stage_results) + 1
                /\ SubSeq(stage_results', 1, Len(stage_results)) = stage_results
                /\ stage_results'[Len(stage_results')].id = local[1].result_doc.id
                /\ multi_stage_test_sessions' = multi_stage_test_sessions
        /\ (pc[1] = "evaluate_update" /\ pc'[1] = "idle")
             => LET request == local[1].request
                    before == find_multi_stage_session(multi_stage_test_sessions,
                                                       request.session_id)
                    after == find_multi_stage_session(multi_stage_test_sessions',
                                                      request.session_id)
                    result == stage_results[Len(stage_results)]
                    slot == after.stage_results[request.stage]
                IN  /\ stage_results' = stage_results
                    /\ response'[1].status_code = 200
                    /\ response'[1].body.id = result.id
                    /\ result.stage = request.stage
                    /\ slot.completed
                    /\ slot.passed = (IF result.passed THEN "true" ELSE "false")
                    /\ slot.result_id = result.id
                    /\ (result.passed /\ request.stage = "yard")
                          => /\ after.current_stage = "road"
                             /\ after.status = "yard_passed"
                    /\ (result.passed /\ request.stage = "road")
                          => /\ after.current_stage = "completed"
                             /\ after.status = "completed"
                    /\ ~result.passed
                          => /\ after.status = "failed"
                             /\ after.failed_stage = request.stage
                             /\ after.current_stage = before.current_stage
      ]_vars

\* a session went through both practical stages: two StageResults, the road
\* stage passed, the session completed
C26_Witness ==
    /\ Len(stage_results) = 2
    /\ response[1] # NoDoc
    /\ response[1].op = "evaluate_stage"
    /\ response[1].status_code = 200
    /\ response[1].request.stage = "road"
    /\ \E session \in Range(multi_stage_test_sessions) :
          /\ session.id = response[1].request.session_id
          /\ session.status = "completed"
          /\ session.current_stage = "completed"
          /\ slot_passed(session, "yard")
          /\ slot_passed(session, "road")

-----------------------------------------------------------------------------
(* The log of the time operations *)

\* a step of slot 1 that handles an extend or a reset up to its return or
\* its update
TimeStep ==
    /\ pc[1] = "idle"
    /\ \/ pc'[1] \in {"extend_update", "reset_update"}
       \/ /\ response'[1] # NoDoc
          /\ response'[1].op \in {"extend_test_time", "reset_test_time"}

\* C27: extend and reset are accepted only while the session's status is
\* active; each accepted call appends exactly one record to the session's
\* single time_extensions log, in call order (extend followed by reset leaves
\* two entries), and a rejected call leaves end_time and the log unchanged.
C27_TimeLog ==
    [][ /\ TimeStep =>
             LET session == find_session(test_sessions, StepRequest.session_id)
             IN  /\ test_sessions' = test_sessions
                 /\ (session = NoDoc \/ session.status # "active")
                       => /\ pc'[1] = "idle"
                          /\ response'[1].status_code \in {400, 403, 404}
        /\ (pc[1] \in {"extend_update", "reset_update"} /\ pc'[1] = "idle")
             => LET session_id == local[1].request.session_id
                    before == find_session(test_sessions, session_id)
                    after == find_session(test_sessions', session_id)
                IN  /\ before.status = "active"
                    /\ response'[1].status_code = 200
                    /\ after.time_extensions
                          = Append(before.time_extensions, local[1].record)
                    /\ (pc[1] = "extend_update")
                          <=> "additional_minutes" \in DOMAIN local[1].record
                    /\ (pc[1] = "reset_update")
                          <=> "reset_to_minutes" \in DOMAIN local[1].record
        /\ ~(pc[1] \in {"extend_update", "reset_update"} /\ pc'[1] = "idle")
             => \A i \in 1..Len(test_sessions) :
                   /\ test_sessions'[i].time_extensions
                         = test_sessions[i].time_extensions
                   /\ test_sessions'[i].end_time = test_sessions[i].end_time
      ]_vars

\* an extend followed by a reset left two entries in the log, in call order
C27_Witness ==
    /\ response[1] # NoDoc
    /\ response[1].op = "reset_test_time"
    /\ response[1].status_code = 200
    /\ \E session \in Range(test_sessions) :
          /\ session.id = response[1].request.session_id
          /\ Len(session.time_extensions) = 2
          /\ "additional_minutes" \in DOMAIN session.time_extensions[1]
          /\ "reset_to_minutes" \in DOMAIN session.time_extensions[2]

-----------------------------------------------------------------------------
(* Resets after a change of the configuration's time limit *)

\* the time limits an administrator sets
TimeLimits == {1, 2}

UpdateTestConfig(r) ==
    \E config_id \in {"cfg1", "cfg2"}, time_limit_minutes \in TimeLimits,
       current_user \in Editors :
        update_test_config(r, config_id,
                           [time_limit_minutes |-> time_limit_minutes],
                           current_user)

NextReset ==
    \/ StartRead(1, MaxSessions, {Owner})
    \/ StartInsert(1)
    \/ ResetRead(1, TimeCallers)
    \/ ResetUpdate(1)
    \/ UpdateTestConfig(1)
    \/ Tick

SpecReset == Init /\ [][NextReset]_vars

\* C28: reset sets end_time to now plus the session's original time limit,
\* the limit the session was started with (stored on the session as
\* time_limit_minutes), also when the test configuration's time limit has
\* been updated since the session started.
C28_ResetToOriginalLimit ==
    [][ /\ (pc[1] = "idle" /\ pc'[1] = "reset_update")
             => local'[1].new_end_time
                   = now + find_session(test_sessions,
                                        local'[1].request.session_id).time_limit_minutes
        /\ (pc[1] = "reset_update" /\ pc'[1] = "idle")
             => end_time_of(test_sessions', local[1].request.session_id)
                   = local[1].new_end_time
      ]_vars

\* every active critical criterion of the request's stage has a submitted
\* score equal to its max_score
critical_at_max(request) ==
    \A c \in Range(evaluation_criteria) :
        (c.stage = request.stage /\ c.is_active /\ c.is_critical)
        => \E i \in 1..Len(request.evaluations) :
              /\ request.evaluations[i].criterion_id = c.id
              /\ request.evaluations[i].score = c.max_score

\* C29: evaluate_stage marks a stage passed only if every active critical
\* criterion defined for that stage received a submitted score equal to its
\* max_score; an evaluation that omits a critical criterion cannot pass the
\* stage.
C29_CriticalRequired ==
    [][ (/\ pc[1] = "evaluate_update"
         /\ pc'[1] = "idle"
         /\ slot_passed(find_multi_stage_session(multi_stage_test_sessions',
                                                 local[1].request.session_id),
                        local[1].request.stage))
        => critical_at_max(local[1].request)
      ]_vars

-----------------------------------------------------------------------------
(* Concurrent extensions of one session *)

\* the additional_minutes of the concurrent extend requests
ExtendMinutes == {1, 2}

\* an officer's extend request in slot r, under the cap of ExtendRead
OfficerExtendRead(r) ==
    \E session_id \in SessionIds, additional_minutes \in ExtendMinutes,
       current_user \in {u \in TimeCallers : u.role # "Candidate"} :
        /\ extend_test_time_read(r, session_id, additional_minutes, current_user)
        /\ pc'[r] = "extend_update" =>
              Len(find_session(test_sessions, session_id).time_extensions)
                 < MaxExtensions

\* two extend requests at a time, step by step, and no reset
NextExtendConc ==
    \/ StartRead(1, MaxSessions, {Owner})
    \/ StartInsert(1)
    \/ \E r \in {1, 2} :
          \/ OfficerExtendRead(r)
          \/ ExtendUpdate(r)

SpecExtendConc == Init /\ [][NextExtendConc]_vars

RECURSIVE extension_sum(_)
\* the sum of additional_minutes over the records of an extension log
extension_sum(log) ==
    IF log = << >> THEN 0
    ELSE Head(log).additional_minutes + extension_sum(Tail(log))

\* C30: when two accepted extend requests of a and b minutes on the same
\* active session interleave, the final end_time is the initial end_time
\* + a + b: in the absence of resets, once no extend is in progress,
\* end_time equals the end_time the session started with plus the sum of
\* additional_minutes of the records in its extension log.
C30_ExtensionsAdd ==
    (\A r \in {1, 2} : pc[r] = "idle")
    => \A session \in Range(test_sessions) :
          session.end_time
             = session.start_time + session.time_limit_minutes
                  + extension_sum(session.time_extensions)

====
